---- MODULE Spec2Model ----
(***************************************************************************)
(* Model of the skillswap backend's connection-request state machine       *)
(* (src/src/controllers/connection.controller.ts over the Connection       *)
(* collection of src/src/models/Connection.ts).                            *)
(*                                                                         *)
(* Every HTTP request is an independent async handler.  Between two        *)
(* `await`s a handler runs without interruption (single Node process), and *)
(* every awaited store call is one atomic single-document operation.  An   *)
(* action is the part of a handler around one operation on the Connection  *)
(* collection.  Awaits that only read the User collection (User.findById,  *)
(* populate) are part of the action they adjoin: no operation modelled     *)
(* here writes that collection, so they read the same data at any time.    *)
(***************************************************************************)
EXTENDS Integers, Sequences, FiniteSets, TLC

(***************************************************************************)
(* Bounds                                                                  *)
(***************************************************************************)
\* number of Connection documents ever inserted (ObjectIds are never reused)
MaxConnections == 2

\* number of Skill documents ever inserted
MaxSkills == 3

\* number of requests on users that clients send without waiting for the
\* responses of the earlier ones
MaxUserRequests == 2

\* number of Message documents ever inserted
MaxMessages == 2

\* the sockets a client can open
Sockets == {1, 2}

\* request slots: how many handlers can be in flight at the same time
Slots == {1, 2}

(***************************************************************************)
(* Identifiers                                                             *)
(***************************************************************************)
\* the User collection; no operation in scope deletes a user
Users == {"a", "b", "c"}

\* a well-formed ObjectId that no user has
Ghost == "ghost"

\* a string that mongoose.Types.ObjectId.isValid rejects
Malformed == [oid |-> "malformed", canon |-> FALSE]

\* An id string of a request: the ObjectId it denotes and whether it is
\* spelled the way ObjectId.toString() spells it (24 lower-case hex digits).
\* The same ObjectId also has other spellings that isValid accepts and that
\* Mongoose casts to it (upper-case hex digits, the 12-byte string form).
UserIdStrings ==
    [oid : Users, canon : BOOLEAN] \cup {[oid |-> Ghost, canon |-> TRUE], Malformed}

\* mongoose.Types.ObjectId.isValid
IsValidObjectId(s) == s # Malformed

\* the ObjectId Mongoose casts an id string to in a query or a document
Cast(s) == s.oid

\* ObjectId.prototype.toString
IdToString(oid) == [oid |-> oid, canon |-> TRUE]

\* the :connectionId route parameter: a well-formed id or a malformed string
ConnIds == 1..MaxConnections
BadConnId == 0
ConnIdParams == ConnIds \cup {BadConnId}

(***************************************************************************)
(* Strings: sequences of characters, 0 is a white-space character          *)
(***************************************************************************)
Space == 0
Letter == 1

RECURSIVE TrimStart(_)
TrimStart(s) == IF s # <<>> /\ Head(s) = Space THEN TrimStart(Tail(s)) ELSE s

RECURSIVE TrimEnd(_)
TrimEnd(s) ==
    IF s # <<>> /\ s[Len(s)] = Space THEN TrimEnd(SubSeq(s, 1, Len(s) - 1)) ELSE s

\* String.prototype.trim
Trim(s) == TrimEnd(TrimStart(s))

\* maxlength of Connection.message
MaxMessageLength == 500

\* an optional string is the empty set (undefined) or a singleton
Undefined == {}
Some(s) == {s}
TheString(o) == CHOOSE s \in o : TRUE

LongText == [i \in 1..(MaxMessageLength + 1) |-> Letter]

\* the `message` values of request bodies
MessageInputs == {Undefined, Some(<<Space, Letter, Space>>), Some(LongText)}

\* message?.trim() || undefined
MessageField(m) ==
    IF m = Undefined THEN Undefined
    ELSE IF Trim(TheString(m)) = <<>> THEN Undefined
    ELSE Some(Trim(TheString(m)))

(***************************************************************************)
(* State                                                                   *)
(***************************************************************************)
VARIABLES
    conns,       \* the Connection collection: _id -> document
    nextId,      \* the next fresh _id
    req,         \* per slot: the request in flight, its position and response
    serial,      \* whether clients wait for a response before the next request
    pre,         \* serial clients: the collection when the request arrived
    removed,     \* serial clients: <<requester, recipient>> of deleted documents
    skills,      \* the Skill collection: _id -> document
    nextSkillId, \* the next fresh _id of a Skill
    sreq,        \* per slot: the skill operation in flight and its outcome
    users,       \* the User collection as the operations on users see it
    nextUserId,  \* the next fresh _id of a User
    ureq,        \* per slot: the user operation in flight and its response
    arrivals,    \* requests on users sent by clients that do not wait
    messages,    \* the Message collection: _id -> document
    nextMsgId,   \* the next fresh _id of a Message
    online,      \* onlineUsers: the entries [user, sock] in insertion order
    connected,   \* the sockets that are connected
    creq         \* per slot: the chat operation in flight and what it sent

vars ==
    <<conns, nextId, req, serial, pre, removed, skills, nextSkillId, sreq,
      users, nextUserId, ureq, arrivals,
      messages, nextMsgId, online, connected, creq>>

skillVars == <<skills, nextSkillId, sreq>>

userVars == <<users, nextUserId, ureq, arrivals>>

chatVars == <<messages, nextMsgId, online, connected, creq>>

PENDING == "pending"
ACCEPTED == "accepted"
REJECTED == "rejected"
BLOCKED == "blocked"
ConnectionStatus == {PENDING, ACCEPTED, REJECTED, BLOCKED}

NoStatus == "none"

ById == {"accept", "reject", "cancel", "remove"}
Queries == {"pending", "accepted", "all"}
Ops == {"send", "status"} \cup ById \cup Queries

\* a response body without a `relationship` member
Absent == "absent"

NoResp == [code |-> 0, error |-> "", status |-> NoStatus, relationship |-> Absent]

\* the list members of a response body: documents are named by their _id
NoRows == [count |-> 0, all |-> <<>>, sent |-> <<>>, received |-> <<>>]

IdleReq ==
    [op |-> "idle", pc |-> "idle", actor |-> "a", to |-> Malformed,
     cid |-> BadConnId, msg |-> Undefined, resp |-> NoResp, rows |-> NoRows]

\* a request of the authenticated user `actor`, as it reaches its handler
Request(op, actor, to, cid) ==
    [op |-> op, pc |-> "start", actor |-> actor, to |-> to,
     cid |-> cid, msg |-> Undefined, resp |-> NoResp, rows |-> NoRows]

\* a skill operation: the `name` of the body or the resolver's token, the
\* :id parameter, and the outcome (HTTP code or 0, error, _id of the skill)
NoOutcome == [code |-> 0, error |-> "", id |-> 0]

IdleSkillReq == [op |-> "idle", pc |-> "idle", name |-> Undefined, id |-> 0, out |-> NoOutcome]

SkillRequest(op, name, id) ==
    [op |-> op, pc |-> "start", name |-> name, id |-> id, out |-> NoOutcome]

\* the response of an operation on users: `token` is the _id the issued token
\* names, `user` the user document of the body
NoUserResp == [code |-> 0, error |-> "", token |-> Undefined, user |-> Undefined]

IdleUserReq ==
    [op |-> "idle", pc |-> "idle", provider |-> Undefined, email |-> Undefined,
     password |-> Undefined, teach |-> Undefined, learn |-> Undefined,
     id |-> 0, jobs |-> <<>>, teachIds |-> <<>>,
     actor |-> 0, skill |-> Undefined,
     resp |-> NoUserResp]

\* what a chat operation sent: the HTTP response of a REST request, and the
\* events emitted to sockets
NoChatResp == [code |-> 0, error |-> "", id |-> 0, rows |-> <<>>, emits |-> {}]

IdleChatReq ==
    [op |-> "idle", pc |-> "idle", sender |-> Malformed, recipient |-> Malformed,
     content |-> Undefined, sock |-> 0, resp |-> NoChatResp]

InitStore ==
    /\ messages = <<>>
    /\ nextMsgId = 1
    /\ online = <<>>
    /\ connected = {}
    /\ creq = [r \in Slots |-> IdleChatReq]
    /\ users = <<>>
    /\ nextUserId = 1
    /\ ureq = [r \in Slots |-> IdleUserReq]
    /\ arrivals = 0
    /\ conns = <<>>
    /\ nextId = 1
    /\ req = [r \in Slots |-> IdleReq]
    /\ pre = <<>>
    /\ removed = {}
    /\ skills = <<>>
    /\ nextSkillId = 1
    /\ sreq = [r \in Slots |-> IdleSkillReq]

Init == InitStore /\ serial = FALSE

InitSeq == InitStore /\ serial = TRUE

(***************************************************************************)
(* Store operations                                                        *)
(***************************************************************************)
\* a lookup that searches one direction only
GetConnection_OneWay(user1Id, user2Id) ==
    {i \in DOMAIN conns :
        conns[i].requester = Cast(user1Id) /\ conns[i].recipient = Cast(user2Id)}

\* Connection.getConnection: the ids of the documents the $or query matches
GetConnection(user1Id, user2Id) ==
    {i \in DOMAIN conns :
        \/ conns[i].requester = Cast(user1Id) /\ conns[i].recipient = Cast(user2Id)
        \/ conns[i].requester = Cast(user2Id) /\ conns[i].recipient = Cast(user1Id)}

\* Model.findById
FindById(cid) == IF cid \in DOMAIN conns THEN {cid} ELSE {}

\* a delete whose filter matches nothing
FindByIdAndDelete_NoMatch(cid) == conns

\* Model.findByIdAndDelete: deleting an absent document is not an error
FindByIdAndDelete(cid) == [i \in DOMAIN conns \ {cid} |-> conns[i]]

\* The schema declares a unique index on the ordered pair (requester,
\* recipient), as an `indexes` entry of the schema options.  Whether the
\* collection has that index depends on the deployment (Mongoose builds
\* indexes from schema.index() and field-level declarations), so an insert
\* of a duplicate ordered pair can be refused with E11000 or can go through.
DuplicateKey(doc) ==
    \E i \in DOMAIN conns :
        conns[i].requester = doc.requester /\ conns[i].recipient = doc.recipient

IndexEnforced == BOOLEAN

\* schema validation of a document (maxlength of message)
ValidationError(doc) ==
    doc.message # Undefined /\ Len(TheString(doc.message)) > MaxMessageLength

\* connectionSchema.pre('save')
PreSaveError(doc) == doc.requester = doc.recipient

\* a create with the two user fields exchanged
NewConnection_Swapped(requesterId, recipientId, message) ==
    [requester |-> Cast(recipientId), recipient |-> requesterId,
     status |-> PENDING, message |-> MessageField(message)]

\* the document Connection.create builds: status takes the schema default
NewConnection(requesterId, recipientId, message) ==
    [requester |-> requesterId, recipient |-> Cast(recipientId),
     status |-> PENDING, message |-> MessageField(message)]

\* a role check that compares with === where the code compares with !==
NotParty_Inverted(doc, userId) ==
    /\ IdToString(doc.requester) = IdToString(userId)
    /\ IdToString(doc.recipient) = IdToString(userId)

\* the role check of removeConnection
NotParty(doc, userId) ==
    /\ IdToString(doc.requester) # IdToString(userId)
    /\ IdToString(doc.recipient) # IdToString(userId)

\* a save that writes the status blocked
Save_Blocked(cid, status) == [conns EXCEPT ![cid].status = BLOCKED]

\* a save that writes the document back without its message
Save_DropsMessage(cid, status) ==
    [conns EXCEPT ![cid] = [@ EXCEPT !.status = status, !.message = Undefined]]

\* document.save() of a loaded document whose only modified path is status:
\* an update of that path by _id
Save(cid, status) == [conns EXCEPT ![cid].status = status]

\* .sort({ createdAt: -1 }): documents are created in the order of their _id
RECURSIVE NewestFirst(_)
NewestFirst(ids) ==
    IF ids = {} THEN <<>>
    ELSE LET m == CHOOSE i \in ids : \A j \in ids : j <= i
         IN <<m>> \o NewestFirst(ids \ {m})

\* a per-user query that looks at the requester role only
GetUserConnections_RequesterOnly(userId, status) ==
    NewestFirst({i \in DOMAIN conns :
        /\ conns[i].requester = Cast(userId)
        /\ status # Undefined => conns[i].status = TheString(status)})

\* Connection.getUserConnections: the $or query over both roles, with the
\* status condition when a status is given
GetUserConnections(userId, status) ==
    NewestFirst({i \in DOMAIN conns :
        /\ conns[i].requester = Cast(userId) \/ conns[i].recipient = Cast(userId)
        /\ status # Undefined => conns[i].status = TheString(status)})

\* a pending query that looks at both roles
GetPendingRequests_AnyRole(userId) ==
    NewestFirst({i \in DOMAIN conns :
        /\ conns[i].requester = Cast(userId) \/ conns[i].recipient = Cast(userId)
        /\ conns[i].status = PENDING})

\* Connection.getPendingRequests
GetPendingRequests(userId) ==
    NewestFirst({i \in DOMAIN conns :
        conns[i].recipient = Cast(userId) /\ conns[i].status = PENDING})

\* .populate(path, 'name email photoURL'): the path holds the User document
Populate(oid) == [_id |-> oid, name |-> oid]

\* Document.prototype.toString: the inspect rendering of the document, which
\* is not the string of its _id
DocumentToString(doc) == [inspect |-> doc]

(***************************************************************************)
(* Request handling                                                        *)
(***************************************************************************)
\* res.status(code).json({error, status})
Reply(r, q, code, error, status, relationship) ==
    req' = [req EXCEPT ![r] = [q EXCEPT !.pc = "done",
                                        !.resp = [code |-> code, error |-> error,
                                                  status |-> status,
                                                  relationship |-> relationship]]]

Respond(r, q, code, error, status) == Reply(r, q, code, error, status, Absent)

\* the handler is suspended at its next await
Goto(r, q, pc) == req' = [req EXCEPT ![r] = [q EXCEPT !.pc = pc]]

Quiet == \A s \in Slots : req[s].pc = "idle"

\* a response leaves the process in the turn that produced it
NoneDone == \A s \in Slots : req[s].pc # "done"

\* a request reaches its handler on slot r
Arrives(r) ==
    /\ req[r].pc = "idle"
    /\ \A s \in Slots : s < r => req[s].pc # "idle"
    /\ NoneDone
    /\ serial => Quiet
    /\ pre' = IF serial THEN conns ELSE pre
    /\ UNCHANGED <<serial, removed, skillVars, userVars, chatVars>>

\* the handler on slot r resumes after the await named pc
Resumes(r, op, pc) ==
    /\ req[r].op = op /\ req[r].pc = pc
    /\ NoneDone
    /\ removed' = IF serial /\ pc = "delete" /\ req[r].cid \in DOMAIN conns
                     THEN removed \cup {<<conns[req[r].cid].requester,
                                          conns[req[r].cid].recipient>>}
                     ELSE removed
    /\ UNCHANGED <<serial, pre, skillVars, userVars, chatVars>>

SendsInFlight ==
    Cardinality({s \in Slots : req[s].op = "send" /\ req[s].pc \notin {"idle", "done"}})

\* the response has been sent; the slot is free again
Complete(r) ==
    /\ req[r].pc = "done"
    /\ req' = [req EXCEPT ![r] = IdleReq]
    /\ pre' = <<>>
    /\ UNCHANGED <<conns, nextId, serial, removed, skillVars, userVars, chatVars>>

(***************************************************************************)
(* sendConnectionRequest                                                   *)
(***************************************************************************)
\* validate recipientId, await User.findById, refuse a self-connection, await
\* Connection.getConnection; findOne returns one of the matches
SendCheck(r) ==
    /\ Arrives(r)
    /\ nextId + SendsInFlight <= MaxConnections
    /\ \E actor \in Users, to \in UserIdStrings :
         LET q == Request("send", actor, to, BadConnId)
             existing == GetConnection(IdToString(actor), to)
         IN
         IF ~IsValidObjectId(to)
            THEN Respond(r, q, 400, "Invalid recipient ID", NoStatus)
         ELSE IF Cast(to) \notin Users
            THEN Respond(r, q, 404, "Recipient user not found", NoStatus)
         ELSE IF IdToString(actor) = to
            THEN Respond(r, q, 400, "Cannot send connection request to yourself", NoStatus)
         ELSE IF existing # {}
            THEN \E i \in existing :
                   Respond(r, q, 400, "Connection already exists", conns[i].status)
         ELSE Goto(r, q, "create")
    /\ UNCHANGED <<conns, nextId>>

\* await Connection.create with the catch block of the handler, populate,
\* and the 201 response.  The body's `message` is not read before this
\* point, so it is drawn here.
SendCreate(r) ==
    /\ Resumes(r, "send", "create")
    /\ \E message \in MessageInputs, enforced \in IndexEnforced :
         LET q == [req[r] EXCEPT !.msg = message]
             doc == NewConnection(q.actor, q.to, message)
         IN
         IF ValidationError(doc)
            THEN /\ Respond(r, q, 500, "ValidationError", NoStatus)
                 /\ UNCHANGED <<conns, nextId>>
         ELSE IF PreSaveError(doc)
            THEN /\ Respond(r, q, 500, "Cannot send connection request to yourself", NoStatus)
                 /\ UNCHANGED <<conns, nextId>>
         ELSE IF enforced /\ DuplicateKey(doc)
            THEN /\ Respond(r, q, 400, "Connection request already exists", NoStatus)
                 /\ UNCHANGED <<conns, nextId>>
         ELSE /\ conns' = (nextId :> doc) @@ conns
              /\ nextId' = nextId + 1
              /\ Respond(r, q, 201, "", PENDING)

(***************************************************************************)
(* acceptConnectionRequest, rejectConnectionRequest                        *)
(***************************************************************************)
\* validate connectionId, await Connection.findById, check role and status
AcceptFind(r) ==
    /\ Arrives(r)
    /\ \E actor \in Users, cid \in ConnIdParams :
         LET q == Request("accept", actor, Malformed, cid) IN
         IF cid = BadConnId
            THEN Respond(r, q, 400, "Invalid connection ID", NoStatus)
         ELSE IF FindById(cid) = {}
            THEN Respond(r, q, 404, "Connection request not found", NoStatus)
         ELSE IF conns[cid].recipient # actor
            THEN Respond(r, q, 403, "You can only accept requests sent to you", NoStatus)
         ELSE IF conns[cid].status # PENDING
            THEN Respond(r, q, 400, "Connection request is not pending", conns[cid].status)
         ELSE Goto(r, q, "save")
    /\ UNCHANGED <<conns, nextId>>

\* connection.status = ACCEPTED; await connection.save(); populate; then the
\* response.  save() of a document that is no longer in the collection
\* throws DocumentNotFoundError.
AcceptSave(r) ==
    /\ Resumes(r, "accept", "save")
    /\ IF FindById(req[r].cid) = {}
          THEN /\ Respond(r, req[r], 500, "DocumentNotFoundError", NoStatus)
               /\ UNCHANGED conns
          ELSE /\ conns' = Save(req[r].cid, ACCEPTED)
               /\ Respond(r, req[r], 200, "", ACCEPTED)
    /\ UNCHANGED nextId

RejectFind(r) ==
    /\ Arrives(r)
    /\ \E actor \in Users, cid \in ConnIdParams :
         LET q == Request("reject", actor, Malformed, cid) IN
         IF cid = BadConnId
            THEN Respond(r, q, 400, "Invalid connection ID", NoStatus)
         ELSE IF FindById(cid) = {}
            THEN Respond(r, q, 404, "Connection request not found", NoStatus)
         ELSE IF conns[cid].recipient # actor
            THEN Respond(r, q, 403, "You can only reject requests sent to you", NoStatus)
         ELSE IF conns[cid].status # PENDING
            THEN Respond(r, q, 400, "Connection request is not pending", conns[cid].status)
         ELSE Goto(r, q, "save")
    /\ UNCHANGED <<conns, nextId>>

\* connection.status = REJECTED; await connection.save(); then the response
RejectSave(r) ==
    /\ Resumes(r, "reject", "save")
    /\ IF FindById(req[r].cid) = {}
          THEN /\ Respond(r, req[r], 500, "DocumentNotFoundError", NoStatus)
               /\ UNCHANGED conns
          ELSE /\ conns' = Save(req[r].cid, REJECTED)
               /\ Respond(r, req[r], 200, "", REJECTED)
    /\ UNCHANGED nextId

(***************************************************************************)
(* cancelConnectionRequest, removeConnection                               *)
(***************************************************************************)
CancelFind(r) ==
    /\ Arrives(r)
    /\ \E actor \in Users, cid \in ConnIdParams :
         LET q == Request("cancel", actor, Malformed, cid) IN
         IF cid = BadConnId
            THEN Respond(r, q, 400, "Invalid connection ID", NoStatus)
         ELSE IF FindById(cid) = {}
            THEN Respond(r, q, 404, "Connection request not found", NoStatus)
         ELSE IF conns[cid].requester # actor
            THEN Respond(r, q, 403, "You can only cancel requests you sent", NoStatus)
         ELSE IF conns[cid].status # PENDING
            THEN Respond(r, q, 400, "Connection request is not pending", conns[cid].status)
         ELSE Goto(r, q, "delete")
    /\ UNCHANGED <<conns, nextId>>

\* await Connection.findByIdAndDelete(connectionId); then the response
CancelDelete(r) ==
    /\ Resumes(r, "cancel", "delete")
    /\ conns' = FindByIdAndDelete(req[r].cid)
    /\ Respond(r, req[r], 200, "", NoStatus)
    /\ UNCHANGED nextId

RemoveFind(r) ==
    /\ Arrives(r)
    /\ \E actor \in Users, cid \in ConnIdParams :
         LET q == Request("remove", actor, Malformed, cid) IN
         IF cid = BadConnId
            THEN Respond(r, q, 400, "Invalid connection ID", NoStatus)
         ELSE IF FindById(cid) = {}
            THEN Respond(r, q, 404, "Connection not found", NoStatus)
         ELSE IF NotParty(conns[cid], actor)
            THEN Respond(r, q, 403, "You can only remove connections you are part of", NoStatus)
         ELSE IF conns[cid].status # ACCEPTED
            THEN Respond(r, q, 400, "Connection is not accepted", conns[cid].status)
         ELSE Goto(r, q, "delete")
    /\ UNCHANGED <<conns, nextId>>

RemoveDelete(r) ==
    /\ Resumes(r, "remove", "delete")
    /\ conns' = FindByIdAndDelete(req[r].cid)
    /\ Respond(r, req[r], 200, "", NoStatus)
    /\ UNCHANGED nextId

(***************************************************************************)
(* getConnectionStatus                                                     *)
(***************************************************************************)
\* the relationship label derived from the document and the querying user
Relationship(doc, currentUserId) ==
    IF doc.status = ACCEPTED THEN "connected"
    ELSE IF doc.status = PENDING
         THEN IF IdToString(doc.requester) = IdToString(currentUserId)
                 THEN "request_sent"
                 ELSE "request_received"
    ELSE IF doc.status = REJECTED THEN "rejected"
    ELSE "none"

\* validate userId, await User.findById, await Connection.getConnection
GetStatus(r) ==
    /\ Arrives(r)
    /\ \E actor \in Users, to \in UserIdStrings :
         LET q == Request("status", actor, to, BadConnId)
             connection == GetConnection(IdToString(actor), to)
         IN
         IF ~IsValidObjectId(to)
            THEN Respond(r, q, 400, "Invalid user ID", NoStatus)
         ELSE IF Cast(to) \notin Users
            THEN Respond(r, q, 404, "User not found", NoStatus)
         ELSE IF connection = {}
            THEN Reply(r, q, 200, "", "none", Absent)
         ELSE \E i \in connection :
                Reply(r, q, 200, "", conns[i].status, Relationship(conns[i], actor))
    /\ UNCHANGED <<conns, nextId>>

\* the possible bodies of a successful lookup of `to` by `actor`
StatusOutcomes(actor, to) ==
    {[record |-> i, status |-> conns[i].status,
      relationship |-> Relationship(conns[i], actor)] :
        i \in GetConnection(IdToString(actor), to)}

(***************************************************************************)
(* getPendingRequests, getAcceptedConnections, getAllConnectionRequests    *)
(***************************************************************************)
\* res.json({count, ...}) of a query
Rows(r, q, all, sent, received) ==
    req' = [req EXCEPT ![r] =
              [q EXCEPT !.pc = "done",
                        !.resp = [NoResp EXCEPT !.code = 200],
                        !.rows = [count |-> Len(all), all |-> all,
                                  sent |-> sent, received |-> received]]]

GetPending(r) ==
    /\ Arrives(r)
    /\ \E actor \in Users :
         Rows(r, Request("pending", actor, Malformed, BadConnId),
              GetPendingRequests(IdToString(actor)), <<>>, <<>>)
    /\ UNCHANGED <<conns, nextId>>

GetAccepted(r) ==
    /\ Arrives(r)
    /\ \E actor \in Users :
         Rows(r, Request("accepted", actor, Malformed, BadConnId),
              GetUserConnections(IdToString(actor), Some(ACCEPTED)), <<>>, <<>>)
    /\ UNCHANGED <<conns, nextId>>

\* the `status` query parameter: absent, a status, or any other string
StatusParams == {Undefined, Some(PENDING), Some(ACCEPTED), Some("unknown")}

\* The filters compare conn.requester.toString() with the user's id string
\* after getUserConnections has populated both paths.
GetAll(r) ==
    /\ Arrives(r)
    /\ \E actor \in Users, status \in StatusParams :
         LET q == [Request("all", actor, Malformed, BadConnId) EXCEPT !.msg = status]
             userId == IdToString(actor)
             connections ==
                 IF status # Undefined /\ TheString(status) \in ConnectionStatus
                    THEN GetUserConnections(userId, status)
                    ELSE GetUserConnections(userId, Undefined)
             IsSent(i) == DocumentToString(Populate(conns[i].requester)) = userId
             IsReceived(i) == DocumentToString(Populate(conns[i].recipient)) = userId
         IN Rows(r, q, connections,
                 SelectSeq(connections, IsSent), SelectSeq(connections, IsReceived))
    /\ UNCHANGED <<conns, nextId>>

(***************************************************************************)
(* Specifications                                                          *)
(***************************************************************************)
Next ==
    \E r \in Slots :
        \/ SendCheck(r) \/ SendCreate(r)
        \/ AcceptFind(r) \/ AcceptSave(r)
        \/ RejectFind(r) \/ RejectSave(r)
        \/ CancelFind(r) \/ CancelDelete(r)
        \/ RemoveFind(r) \/ RemoveDelete(r)
        \/ GetStatus(r)
        \/ GetPending(r) \/ GetAccepted(r) \/ GetAll(r)
        \/ Complete(r)

\* requests arrive at any time: handlers interleave at their awaits
Spec == Init /\ [][Next]_vars

\* serial clients: a request arrives only when no handler is in flight
SpecSeq == InitSeq /\ [][Next]_vars

TypeOK ==
    /\ DOMAIN conns \subseteq ConnIds
    /\ nextId \in 1..(MaxConnections + 1)
    /\ \A i \in DOMAIN conns :
          /\ conns[i].requester \in Users /\ conns[i].recipient \in Users
          /\ conns[i].status \in ConnectionStatus
    /\ \A r \in Slots : req[r].op \in Ops \cup {"idle"}

(***************************************************************************)
(* Skill names: strings over a white-space character, a letter in lower    *)
(* and in upper case, and '+'                                              *)
(***************************************************************************)
Upper == 2
Plus == 3

ToLower(c) == IF c = Upper THEN Letter ELSE c

LowerCase(s) == [k \in DOMAIN s |-> ToLower(s[k])]

\* the `name` values of request bodies: missing, "", " ", "a", "A", " A ", "a+"
NameInputs ==
    {Undefined, Some(<<>>), Some(<<Space>>), Some(<<Letter>>), Some(<<Upper>>),
     Some(<<Space, Upper, Space>>), Some(<<Letter, Plus>>)}

\* a string of 24 hexadecimal digits
HexToken == [k \in 1..24 |-> Letter]

\* the tokens given to the resolver
SkillTokens ==
    {<<Space>>, <<Letter>>, <<Upper>>, <<Space, Upper, Space>>, <<Letter, Plus>>, HexToken}

\* an isValid that accepts no string
IsObjectIdString_Never(s) == FALSE

\* mongoose.Types.ObjectId.isValid of a string: 24 hexadecimal digits
IsObjectIdString(s) == Len(s) = 24 /\ \A k \in DOMAIN s : s[k] \in {Letter, Upper}

\* the :id route parameter: a well-formed id or a malformed string
SkillIds == 1..MaxSkills
BadSkillId == 0
SkillIdParams == SkillIds \cup {BadSkillId}

\* !name || !name.trim()
NameMissing(name) ==
    \/ name = Undefined
    \/ TheString(name) = <<>>
    \/ Trim(TheString(name)) = <<>>

\* a name that is stored as it was given
TrimmedName_AsGiven(name) == TheString(name)

\* name.trim()
TrimmedName(name) == Trim(TheString(name))

(***************************************************************************)
(* Regular expressions: the pattern `^${text}$` with option i              *)
(***************************************************************************)
\* The items of a pattern: a character with its repetition.  '+' after a
\* character repeats it, a second '+' makes the repetition possessive, and a
\* '+' anywhere else has nothing to repeat.
RECURSIVE ParseRegex(_, _)
ParseRegex(text, items) ==
    IF text = <<>> THEN [ok |-> TRUE, items |-> items]
    ELSE IF Head(text) # Plus
         THEN ParseRegex(Tail(text), Append(items, [ch |-> Head(text), rep |-> "one"]))
    ELSE IF items = <<>> \/ items[Len(items)].rep = "possessive"
         THEN [ok |-> FALSE, items |-> <<>>]
    ELSE ParseRegex(Tail(text),
                    [items EXCEPT ![Len(items)].rep =
                        IF @ = "one" THEN "many" ELSE "possessive"])

\* the length of the longest prefix of s made of the character ch, in any case
RECURSIVE Run(_, _)
Run(ch, s) ==
    IF s # <<>> /\ ToLower(Head(s)) = ToLower(ch) THEN 1 + Run(ch, Tail(s)) ELSE 0

Drop(s, k) == SubSeq(s, k + 1, Len(s))

\* whether the items match the whole of s
RECURSIVE MatchItems(_, _)
MatchItems(items, s) ==
    IF items = <<>> THEN s = <<>>
    ELSE LET it == Head(items)
             run == Run(it.ch, s)
         IN
         IF it.rep = "one" THEN run >= 1 /\ MatchItems(Tail(items), Drop(s, 1))
         ELSE IF it.rep = "many"
              THEN \E k \in 1..run : MatchItems(Tail(items), Drop(s, k))
         ELSE run >= 1 /\ MatchItems(Tail(items), Drop(s, run))

(***************************************************************************)
(* Skill store operations                                                  *)
(***************************************************************************)
\* Skill.findOne({ name }): the ids of the documents with exactly that name
FindOneByName(name) == {i \in DOMAIN skills : skills[i].name = name}

\* Skill.findOne({ name: { $regex: `^${text}$`, $options: 'i' } })
FindOneByRegex(text) ==
    {i \in DOMAIN skills : MatchItems(ParseRegex(text, <<>>).items, skills[i].name)}

\* the unique index on name: another document has exactly this name
DuplicateName(name, self) ==
    \E i \in DOMAIN skills \ {self} : skills[i].name = name

\* `required: true` of name
NameRequiredError(name) == name = <<>>

(***************************************************************************)
(* Skill request handling                                                  *)
(***************************************************************************)
Outcome(r, q, code, error, id) ==
    sreq' = [sreq EXCEPT ![r] =
               [q EXCEPT !.pc = "done",
                         !.out = [code |-> code, error |-> error, id |-> id]]]

SkillGoto(r, q, pc) == sreq' = [sreq EXCEPT ![r] = [q EXCEPT !.pc = pc]]

SkillQuiet == \A s \in Slots : sreq[s].pc = "idle"

SkillNoneDone == \A s \in Slots : sreq[s].pc # "done"

\* a skill operation starts on slot r
SkillArrives(r) ==
    /\ sreq[r].pc = "idle"
    /\ \A s \in Slots : s < r => sreq[s].pc # "idle"
    /\ SkillNoneDone
    /\ serial => SkillQuiet
    /\ pre' = IF serial THEN skills ELSE pre
    /\ UNCHANGED <<conns, nextId, req, removed, serial, userVars, chatVars>>

\* the operation on slot r resumes after the await named pc
SkillResumes(r, op, pc) ==
    /\ sreq[r].op = op /\ sreq[r].pc = pc
    /\ SkillNoneDone
    /\ UNCHANGED <<conns, nextId, req, removed, serial, pre, userVars, chatVars>>

CreatesInFlight == Cardinality({s \in Slots : sreq[s].pc = "create"})

\* the outcome has been delivered; the slot is free again
SkillComplete(r) ==
    /\ sreq[r].pc = "done"
    /\ sreq' = [sreq EXCEPT ![r] = IdleSkillReq]
    /\ pre' = <<>>
    /\ UNCHANGED <<conns, nextId, req, removed, serial, skills, nextSkillId, userVars, chatVars>>

(***************************************************************************)
(* createSkill, updateSkill, deleteSkill                                   *)
(***************************************************************************)
\* validate name, await Skill.findOne({ name: name.trim() })
CreateSkillFind(r) ==
    /\ SkillArrives(r)
    /\ nextSkillId + CreatesInFlight <= MaxSkills
    /\ \E name \in NameInputs :
         LET q == SkillRequest("create", name, BadSkillId) IN
         IF NameMissing(name)
            THEN Outcome(r, q, 400, "Skill name is required", 0)
         ELSE IF FindOneByName(TrimmedName(name)) # {}
            THEN Outcome(r, q, 400, "Skill already exists", 0)
         ELSE SkillGoto(r, q, "create")
    /\ UNCHANGED <<skills, nextSkillId>>

\* await Skill.create({ name: name.trim() }), the 201 response, the catch
CreateSkillCreate(r) ==
    /\ SkillResumes(r, "create", "create")
    /\ LET name == TrimmedName(sreq[r].name) IN
       IF DuplicateName(name, 0)
          THEN /\ Outcome(r, sreq[r], 500, "E11000 duplicate key", 0)
               /\ UNCHANGED <<skills, nextSkillId>>
          ELSE /\ skills' = (nextSkillId :> [name |-> name]) @@ skills
               /\ nextSkillId' = nextSkillId + 1
               /\ Outcome(r, sreq[r], 201, "", nextSkillId)

\* validate name, await Skill.findByIdAndUpdate(id, { name: name.trim() })
UpdateSkill(r) ==
    /\ SkillArrives(r)
    /\ \E name \in NameInputs, id \in SkillIdParams :
         LET q == SkillRequest("update", name, id) IN
         IF NameMissing(name)
            THEN /\ Outcome(r, q, 400, "Skill name is required", 0)
                 /\ UNCHANGED skills
         ELSE IF id = BadSkillId
            THEN /\ Outcome(r, q, 500, "CastError", 0)
                 /\ UNCHANGED skills
         ELSE IF id \notin DOMAIN skills
            THEN /\ Outcome(r, q, 404, "Skill not found", 0)
                 /\ UNCHANGED skills
         ELSE IF DuplicateName(TrimmedName(name), id)
            THEN /\ Outcome(r, q, 500, "E11000 duplicate key", 0)
                 /\ UNCHANGED skills
         ELSE /\ skills' = [skills EXCEPT ![id].name = TrimmedName(name)]
              /\ Outcome(r, q, 200, "", id)
    /\ UNCHANGED nextSkillId

\* await Skill.findByIdAndDelete(id)
DeleteSkill(r) ==
    /\ SkillArrives(r)
    /\ \E id \in SkillIdParams :
         LET q == SkillRequest("delete", Undefined, id) IN
         IF id = BadSkillId
            THEN /\ Outcome(r, q, 500, "CastError", 0)
                 /\ UNCHANGED skills
         ELSE IF id \notin DOMAIN skills
            THEN /\ Outcome(r, q, 404, "Skill not found", 0)
                 /\ UNCHANGED skills
         ELSE /\ skills' = [i \in DOMAIN skills \ {id} |-> skills[i]]
              /\ Outcome(r, q, 200, "", id)
    /\ UNCHANGED nextSkillId

(***************************************************************************)
(* getOrCreateSkill                                                        *)
(***************************************************************************)
\* An outcome with code 0 is the value the function returns (the token
\* itself when id is 0), an outcome with an error is what it throws.
\* findOne returns one of the matches.
ResolveFind(r) ==
    /\ SkillArrives(r)
    /\ nextSkillId + CreatesInFlight <= MaxSkills
    /\ \E token \in SkillTokens :
         LET q == SkillRequest("resolve", Some(token), BadSkillId)
             text == Trim(token)
         IN
         IF IsObjectIdString(token)
            THEN Outcome(r, q, 0, "", 0)
         ELSE IF ~ParseRegex(text, <<>>).ok
            THEN Outcome(r, q, 0, "Regular expression is invalid", 0)
         ELSE IF FindOneByRegex(text) # {}
            THEN \E i \in FindOneByRegex(text) : Outcome(r, q, 0, "", i)
         ELSE SkillGoto(r, q, "create")
    /\ UNCHANGED <<skills, nextSkillId>>

\* skillDoc = await Skill.create({ name: skill.trim() }); return skillDoc._id
ResolveCreate(r) ==
    /\ SkillResumes(r, "resolve", "create")
    /\ LET name == TrimmedName(sreq[r].name) IN
       IF NameRequiredError(name)
          THEN /\ Outcome(r, sreq[r], 0, "ValidationError", 0)
               /\ UNCHANGED <<skills, nextSkillId>>
       ELSE IF DuplicateName(name, 0)
          THEN /\ Outcome(r, sreq[r], 0, "E11000 duplicate key", 0)
               /\ UNCHANGED <<skills, nextSkillId>>
       ELSE /\ skills' = (nextSkillId :> [name |-> name]) @@ skills
            /\ nextSkillId' = nextSkillId + 1
            /\ Outcome(r, sreq[r], 0, "", nextSkillId)

NextSkill ==
    \E r \in Slots :
        \/ CreateSkillFind(r) \/ CreateSkillCreate(r)
        \/ UpdateSkill(r)
        \/ DeleteSkill(r)
        \/ ResolveFind(r) \/ ResolveCreate(r)
        \/ SkillComplete(r)

\* skill operations start at any time and interleave at their awaits
SpecSkill == Init /\ [][NextSkill]_vars

\* a skill operation starts only when no other is in flight
SpecSkillSeq == InitSeq /\ [][NextSkill]_vars

SkillTypeOK ==
    /\ DOMAIN skills \subseteq SkillIds
    /\ nextSkillId \in 1..(MaxSkills + 1)
    /\ \A i \in DOMAIN skills : skills[i].name = Trim(skills[i].name)
    /\ \A r \in Slots : sreq[r].op \in {"idle", "create", "update", "delete", "resolve"}

(***************************************************************************)
(* Users: documents and request bodies                                     *)
(***************************************************************************)
\* the email addresses of request bodies; the unique index on email lets
\* each of them belong to one user
Emails == {"e1", "e2"}

\* the `password` of a request body: missing or a string
PasswordInputs == {Undefined, Some("p1"), Some("p2")}

\* bcrypt.hash(password, 10)
BcryptHash(password) == [bcrypt |-> password]

\* bcrypt.compare(password, hash)
BcryptCompare(password, hash) == hash = BcryptHash(password)

Providers == {"google", "facebook", "linkedin"}

TheList(o) == CHOOSE l \in o : TRUE

\* skillsToTeach of a request body: missing, [] or ["a", "a"]
SkillListInputs == {Undefined, Some(<<>>), Some(<< <<Letter>>, <<Letter>> >>)}

\* skillsToLearn of a request body: missing or ["a"]
LearnListInputs == {Undefined, Some(<< <<Letter>> >>)}

\* the :id route parameter: a well-formed id or a malformed string
UserIds == 1..Cardinality(Emails)
BadUserId == 0
UserIdParams == UserIds \cup {BadUserId}

\* skillsToTeach = [] in the destructuring of req.body
DefaultList(list) == IF list = Undefined THEN <<>> ELSE TheList(list)

\* skillsToTeach && Array.isArray(skillsToTeach) && skillsToTeach.length === 0
IsEmptyArray(list) == list # Undefined /\ TheList(list) = <<>>

UserRequest(op) == [IdleUserReq EXCEPT !.op = op, !.pc = "start"]

\* the document User.create builds; points and hasReceivedFreePoints are
\* given as 0 and false or take these values as schema defaults
NewUser(email, password, oauthProvider, skillsToTeach, skillsToLearn) ==
    [email |-> email, password |-> password, oauthProvider |-> oauthProvider,
     skillsToTeach |-> skillsToTeach, skillsToLearn |-> skillsToLearn,
     points |-> 0, hasReceivedFreePoints |-> FALSE]

\* a schema whose password is never required
UserValidationError_PasswordOptional(doc) == doc.email = Undefined

\* schema validation: email is required, password is required when the
\* document has no oauthProvider
UserValidationError(doc) ==
    \/ doc.email = Undefined
    \/ doc.password = Undefined /\ doc.oauthProvider = Undefined

\* User.findOne({ email })
FindOneByEmail(email) == {i \in DOMAIN users : users[i].email = email}

\* a unique index that is not there
DuplicateEmail_NotEnforced(email, self) == FALSE

\* the unique index on email: another document has this email
DuplicateEmail(email, self) ==
    \E i \in DOMAIN users \ {self} : users[i].email = email

\* user.toObject(); delete userResponse.password
UserResponse(doc) == [doc EXCEPT !.password = Undefined]

(***************************************************************************)
(* User request handling                                                   *)
(***************************************************************************)
UserReply(r, q, code, error, token, user) ==
    ureq' = [ureq EXCEPT ![r] =
               [q EXCEPT !.pc = "done",
                         !.resp = [code |-> code, error |-> error,
                                   token |-> token, user |-> user]]]

UserFails(r, q, code, error) == UserReply(r, q, code, error, Undefined, Undefined)

\* Promise.all of the resolutions of a list: one job per element
StartJobs(list) ==
    [k \in DOMAIN list |-> [token |-> list[k], pc |-> "find", error |-> "", ref |-> Undefined]]

JobsSettled(jobs) == \A k \in DOMAIN jobs : jobs[k].pc = "done"

JobsFailed(jobs) == \E k \in DOMAIN jobs : jobs[k].pc = "done" /\ jobs[k].error # ""

\* the array Promise.all resolves to
Refs(jobs) == [k \in DOMAIN jobs |-> TheList(jobs[k].ref)]

UserQuiet == \A s \in Slots : ureq[s].pc = "idle"

UserNoneDone == \A s \in Slots : ureq[s].pc # "done"

\* a request on users reaches its handler on slot r
UserArrives(r) ==
    /\ ureq[r].pc = "idle"
    /\ \A s \in Slots : s < r => ureq[s].pc # "idle"
    /\ UserNoneDone
    /\ serial => UserQuiet
    /\ ~serial => arrivals < MaxUserRequests
    /\ arrivals' = IF serial THEN arrivals ELSE arrivals + 1
    /\ pre' = IF serial THEN [users |-> users, skills |-> skills] ELSE pre
    /\ UNCHANGED <<conns, nextId, req, removed, serial, sreq, chatVars>>

\* the handler on slot r resumes at pc
UserResumes(r, ops, pcs) ==
    /\ ureq[r].op \in ops /\ ureq[r].pc \in pcs
    /\ UserNoneDone
    /\ UNCHANGED <<conns, nextId, req, removed, serial, pre, sreq, arrivals, chatVars>>

\* the response has been sent and no resolution of the request is still
\* running; the slot is free again
UserComplete(r) ==
    /\ ureq[r].pc = "done"
    /\ JobsSettled(ureq[r].jobs)
    /\ ureq' = [ureq EXCEPT ![r] = IdleUserReq]
    /\ pre' = <<>>
    /\ UNCHANGED <<conns, nextId, req, removed, serial, skillVars, users, nextUserId, arrivals, chatVars>>

(***************************************************************************)
(* getOrCreateSkill as called for the elements of a skill list             *)
(***************************************************************************)
\* a resolution of slot r is running on its own after the request was
\* answered, or its request is waiting for it
JobRuns(r, k, pc) ==
    /\ k \in DOMAIN ureq[r].jobs
    /\ ureq[r].jobs[k].pc = pc
    /\ \A s \in Slots \ {r} : ureq[s].pc # "done"
    /\ UNCHANGED <<conns, nextId, req, removed, serial, pre, sreq, users, nextUserId, arrivals, chatVars>>

JobDone(r, k, error, ref) ==
    ureq' = [ureq EXCEPT ![r].jobs[k] = [@ EXCEPT !.pc = "done", !.error = error, !.ref = ref]]

\* isValid, await Skill.findOne by regular expression
JobFind(r, k) ==
    /\ JobRuns(r, k, "find")
    /\ LET token == ureq[r].jobs[k].token
           text == Trim(token)
       IN
       IF IsObjectIdString(token)
          THEN JobDone(r, k, "", Some([token |-> token]))
       ELSE IF ~ParseRegex(text, <<>>).ok
          THEN JobDone(r, k, "Regular expression is invalid", Undefined)
       ELSE IF FindOneByRegex(text) # {}
          THEN \E i \in FindOneByRegex(text) : JobDone(r, k, "", Some([id |-> i]))
       ELSE ureq' = [ureq EXCEPT ![r].jobs[k].pc = "create"]
    /\ UNCHANGED <<skills, nextSkillId>>

\* await Skill.create({ name: skill.trim() }); return skillDoc._id
JobCreate(r, k) ==
    /\ JobRuns(r, k, "create")
    /\ LET name == Trim(ureq[r].jobs[k].token) IN
       IF NameRequiredError(name)
          THEN /\ JobDone(r, k, "ValidationError", Undefined)
               /\ UNCHANGED <<skills, nextSkillId>>
       ELSE IF DuplicateName(name, 0)
          THEN /\ JobDone(r, k, "E11000 duplicate key", Undefined)
               /\ UNCHANGED <<skills, nextSkillId>>
       ELSE /\ skills' = (nextSkillId :> [name |-> name]) @@ skills
            /\ nextSkillId' = nextSkillId + 1
            /\ JobDone(r, k, "", Some([id |-> nextSkillId]))

\* Promise.all rejects with the error of a resolution that failed; the catch
\* block answers 500.  The other resolutions of the list go on.
JobsReject(r) ==
    /\ UserResumes(r, {"register", "update"}, {"teach", "learn"})
    /\ \E k \in DOMAIN ureq[r].jobs :
         /\ ureq[r].jobs[k].pc = "done" /\ ureq[r].jobs[k].error # ""
         /\ UserFails(r, ureq[r], 500, ureq[r].jobs[k].error)
    /\ UNCHANGED <<skills, nextSkillId, users, nextUserId>>

(***************************************************************************)
(* POST /api/users/register                                                *)
(***************************************************************************)
\* the checks on the skill lists, await User.findOne({ email }),
\* await bcrypt.hash(password, 10), the resolutions of skillsToTeach start
RegisterFind(r) ==
    /\ UserArrives(r)
    /\ \E email \in Emails, password \in PasswordInputs,
          teach \in SkillListInputs, learn \in LearnListInputs :
         LET q == [UserRequest("register") EXCEPT
                      !.email = Some(email), !.password = password,
                      !.teach = teach, !.learn = learn]
         IN
         IF DefaultList(teach) = <<>>
            THEN UserFails(r, q, 400, "At least one skill to teach is required.")
         ELSE IF DefaultList(learn) = <<>>
            THEN UserFails(r, q, 400, "At least one skill to learn is required.")
         ELSE IF FindOneByEmail(Some(email)) # {}
            THEN UserFails(r, q, 400, "User already exists")
         ELSE IF password = Undefined
            THEN UserFails(r, q, 500, "Illegal arguments")
         ELSE ureq' = [ureq EXCEPT ![r] =
                         [q EXCEPT !.pc = "teach", !.jobs = StartJobs(DefaultList(teach))]]
    /\ UNCHANGED <<skills, nextSkillId, users, nextUserId>>

\* teachSkillIds is there; the resolutions of skillsToLearn start
RegisterLearn(r) ==
    /\ UserResumes(r, {"register"}, {"teach"})
    /\ JobsSettled(ureq[r].jobs) /\ ~JobsFailed(ureq[r].jobs)
    /\ ureq' = [ureq EXCEPT ![r] =
                  [@ EXCEPT !.pc = "learn", !.teachIds = Refs(ureq[r].jobs),
                            !.jobs = StartJobs(DefaultList(ureq[r].learn))]]
    /\ UNCHANGED <<skills, nextSkillId, users, nextUserId>>

\* await User.create({...}); generateToken; res.json({ token, user })
RegisterCreate(r) ==
    /\ UserResumes(r, {"register"}, {"learn"})
    /\ JobsSettled(ureq[r].jobs) /\ ~JobsFailed(ureq[r].jobs)
    /\ LET doc == NewUser(ureq[r].email, Some(BcryptHash(TheList(ureq[r].password))),
                          Undefined, ureq[r].teachIds, Refs(ureq[r].jobs))
       IN
       IF UserValidationError(doc)
          THEN /\ UserFails(r, ureq[r], 500, "ValidationError")
               /\ UNCHANGED <<users, nextUserId>>
       ELSE IF DuplicateEmail(doc.email, 0)
          THEN /\ UserFails(r, ureq[r], 500, "E11000 duplicate key")
               /\ UNCHANGED <<users, nextUserId>>
       ELSE /\ users' = (nextUserId :> doc) @@ users
            /\ nextUserId' = nextUserId + 1
            /\ UserReply(r, [ureq[r] EXCEPT !.id = nextUserId], 200, "",
                         Some(nextUserId), Some(UserResponse(doc)))
    /\ UNCHANGED <<skills, nextSkillId>>

(***************************************************************************)
(* POST /api/users/login                                                   *)
(***************************************************************************)
\* await User.findOne({ email }); await bcrypt.compare; generateToken
Login(r) ==
    /\ UserArrives(r)
    /\ \E email \in Emails, password \in PasswordInputs :
         LET q == [UserRequest("login") EXCEPT !.email = Some(email), !.password = password]
             found == FindOneByEmail(Some(email))
         IN
         IF found = {}
            THEN UserFails(r, q, 400, "Invalid credentials")
         ELSE \E i \in found :
                IF users[i].oauthProvider # Undefined
                   THEN UserFails(r, q, 400, "Invalid credentials")
                ELSE IF password = Undefined
                   THEN UserFails(r, q, 500, "Illegal arguments")
                ELSE IF ~BcryptCompare(TheList(password), TheList(users[i].password))
                   THEN UserFails(r, q, 400, "Invalid credentials")
                ELSE UserReply(r, [q EXCEPT !.id = i], 200, "", Some(i),
                               Some(UserResponse(users[i])))
    /\ UNCHANGED <<skills, nextSkillId, users, nextUserId>>

(***************************************************************************)
(* POST /api/users/google-login, facebook-login, linkedin-login            *)
(***************************************************************************)
LoginFailed(provider) ==
    CASE provider = "google" -> "Google login failed"
      [] provider = "facebook" -> "Facebook login failed"
      [] provider = "linkedin" -> "LinkedIn login failed"

\* the calls to the provider (google-login makes none and takes the email
\* of the body), await User.findOne({ email })
OAuthFind(r) ==
    /\ UserArrives(r)
    /\ \E provider \in Providers, email \in Emails, verified \in BOOLEAN :
         LET q == [UserRequest("oauth") EXCEPT !.provider = Some(provider), !.email = Some(email)]
             found == FindOneByEmail(Some(email))
         IN
         IF ~verified /\ provider # "google"
            THEN UserFails(r, q, 400, LoginFailed(provider))
         ELSE IF found # {}
            THEN \E i \in found :
                   UserReply(r, [q EXCEPT !.id = i], 200, "", Some(i),
                             Some(UserResponse(users[i])))
         ELSE ureq' = [ureq EXCEPT ![r] = [q EXCEPT !.pc = "create"]]
    /\ UNCHANGED <<skills, nextSkillId, users, nextUserId>>

\* user = await User.create({ ..., oauthProvider }); generateToken
OAuthCreate(r) ==
    /\ UserResumes(r, {"oauth"}, {"create"})
    /\ LET provider == TheList(ureq[r].provider)
           doc == NewUser(ureq[r].email, Undefined, ureq[r].provider, <<>>, <<>>)
       IN
       IF UserValidationError(doc) \/ DuplicateEmail(doc.email, 0)
          THEN /\ UserFails(r, ureq[r], 400, LoginFailed(provider))
               /\ UNCHANGED <<users, nextUserId>>
       ELSE /\ users' = (nextUserId :> doc) @@ users
            /\ nextUserId' = nextUserId + 1
            /\ UserReply(r, [ureq[r] EXCEPT !.id = nextUserId], 200, "",
                         Some(nextUserId), Some(UserResponse(doc)))
    /\ UNCHANGED <<skills, nextSkillId>>

(***************************************************************************)
(* POST /api/auth/google                                                   *)
(***************************************************************************)
\* let user = await User.findOne({ email })
AuthGoogleFind(r) ==
    /\ UserArrives(r)
    /\ \E email \in Emails :
         LET q == [UserRequest("authGoogle") EXCEPT !.email = Some(email)]
             found == FindOneByEmail(Some(email))
         IN
         IF found # {}
            THEN \E i \in found :
                   UserReply(r, [q EXCEPT !.id = i], 200, "", Undefined, Some(users[i]))
         ELSE ureq' = [ureq EXCEPT ![r] = [q EXCEPT !.pc = "save"]]
    /\ UNCHANGED <<skills, nextSkillId, users, nextUserId>>

\* user = new User({ uid, name, email, photo }); await user.save()
AuthGoogleSave(r) ==
    /\ UserResumes(r, {"authGoogle"}, {"save"})
    /\ LET doc == NewUser(ureq[r].email, Undefined, Undefined, <<>>, <<>>) IN
       IF UserValidationError(doc) \/ DuplicateEmail(doc.email, 0)
          THEN /\ UserFails(r, ureq[r], 500, "Internal Server Error")
               /\ UNCHANGED <<users, nextUserId>>
       ELSE /\ users' = (nextUserId :> doc) @@ users
            /\ nextUserId' = nextUserId + 1
            /\ UserReply(r, [ureq[r] EXCEPT !.id = nextUserId], 200, "",
                         Undefined, Some(doc))
    /\ UNCHANGED <<skills, nextSkillId>>

(***************************************************************************)
(* PUT /api/users/:id                                                      *)
(***************************************************************************)
\* updateData: the fields of the body that are there
UpdateData(doc, q, teachIds, learnIds) ==
    [doc EXCEPT
       !.email = IF q.email = Undefined THEN @ ELSE q.email,
       !.skillsToTeach = IF q.teach = Undefined THEN @ ELSE teachIds,
       !.skillsToLearn = IF q.learn = Undefined THEN @ ELSE learnIds]

\* await User.findByIdAndUpdate(id, updateData, { new, runValidators })
FindByIdAndUpdate(r, q, teachIds, learnIds) ==
    /\ UNCHANGED nextUserId
    /\ IF q.id \notin DOMAIN users
          THEN /\ UserFails(r, q, 404, "User not found")
               /\ UNCHANGED users
       ELSE IF q.email # Undefined /\ DuplicateEmail(q.email, q.id)
          THEN /\ UserFails(r, q, 500, "E11000 duplicate key")
               /\ UNCHANGED users
       ELSE /\ users' = [users EXCEPT ![q.id] = UpdateData(@, q, teachIds, learnIds)]
            /\ UserReply(r, q, 200, "", Undefined,
                         Some(UserResponse(UpdateData(users[q.id], q, teachIds, learnIds))))

\* isValid(id), the checks on the skill lists, the first await of the handler
UpdateUserStart(r) ==
    /\ UserArrives(r)
    /\ \E id \in UserIdParams, email \in {Undefined} \cup {Some(e) : e \in Emails},
          teach \in SkillListInputs, learn \in LearnListInputs :
         LET q == [UserRequest("update") EXCEPT
                      !.id = id, !.email = email, !.teach = teach, !.learn = learn]
         IN
         IF id = BadUserId
            THEN /\ UserFails(r, q, 400, "Invalid user ID")
                 /\ UNCHANGED <<users, nextUserId>>
         ELSE IF IsEmptyArray(teach)
            THEN /\ UserFails(r, q, 400, "At least one skill to teach is required.")
                 /\ UNCHANGED <<users, nextUserId>>
         ELSE IF IsEmptyArray(learn)
            THEN /\ UserFails(r, q, 400, "At least one skill to learn is required.")
                 /\ UNCHANGED <<users, nextUserId>>
         ELSE IF teach # Undefined
            THEN /\ ureq' = [ureq EXCEPT ![r] =
                               [q EXCEPT !.pc = "teach", !.jobs = StartJobs(TheList(teach))]]
                 /\ UNCHANGED <<users, nextUserId>>
         ELSE IF learn # Undefined
            THEN /\ ureq' = [ureq EXCEPT ![r] =
                               [q EXCEPT !.pc = "learn", !.jobs = StartJobs(TheList(learn))]]
                 /\ UNCHANGED <<users, nextUserId>>
         ELSE FindByIdAndUpdate(r, q, <<>>, <<>>)
    /\ UNCHANGED <<skills, nextSkillId>>

\* updateData.skillsToTeach is there; the next await of the handler
UpdateUserLearn(r) ==
    /\ UserResumes(r, {"update"}, {"teach"})
    /\ JobsSettled(ureq[r].jobs) /\ ~JobsFailed(ureq[r].jobs)
    /\ IF ureq[r].learn # Undefined
          THEN /\ ureq' = [ureq EXCEPT ![r] =
                             [@ EXCEPT !.pc = "learn", !.teachIds = Refs(ureq[r].jobs),
                                       !.jobs = StartJobs(TheList(ureq[r].learn))]]
               /\ UNCHANGED <<users, nextUserId>>
       ELSE FindByIdAndUpdate(r, ureq[r], Refs(ureq[r].jobs), <<>>)
    /\ UNCHANGED <<skills, nextSkillId>>

\* updateData.skillsToLearn is there; findByIdAndUpdate
UpdateUserWrite(r) ==
    /\ UserResumes(r, {"update"}, {"learn"})
    /\ JobsSettled(ureq[r].jobs) /\ ~JobsFailed(ureq[r].jobs)
    /\ FindByIdAndUpdate(r, ureq[r], ureq[r].teachIds, Refs(ureq[r].jobs))
    /\ UNCHANGED <<skills, nextSkillId>>

NextUser ==
    \E r \in Slots :
       \/ RegisterFind(r)
       \/ RegisterLearn(r)
       \/ RegisterCreate(r)
       \/ Login(r)
       \/ OAuthFind(r)
       \/ OAuthCreate(r)
       \/ AuthGoogleFind(r)
       \/ AuthGoogleSave(r)
       \/ UpdateUserStart(r)
       \/ UpdateUserLearn(r)
       \/ UpdateUserWrite(r)
       \/ JobsReject(r)
       \/ \E k \in 1..2 : JobFind(r, k) \/ JobCreate(r, k)
       \/ UserComplete(r)

SpecUser == Init /\ [][NextUser]_vars

SpecUserSeq == InitSeq /\ [][NextUser]_vars

UserTypeOK ==
    /\ DOMAIN users \subseteq UserIds
    /\ DOMAIN users = 1..(nextUserId - 1)
    /\ \A r \in Slots : ureq[r].pc \in {"idle", "teach", "learn", "create", "save", "resolve", "done"}
    /\ DOMAIN skills \subseteq SkillIds

(***************************************************************************)
(* POST and DELETE /api/users/:id/skills/teach, /api/users/:id/skills/learn *)
(***************************************************************************)
\* authenticateToken: the request carries a token that was issued to a
\* user; req.user is that user
AuthenticateToken(actor) == actor \in DOMAIN users

\* skillId of the body of an add-skill request: the name "a" or a
\* well-formed identifier
AddSkillInputs == {<<Letter>>, HexToken}

\* the :skillId route parameter of a remove-skill request: the identifier of
\* skill 1, a well-formed identifier, a malformed string
RemoveSkillInputs == {[id |-> 1], [token |-> HexToken], [token |-> <<Letter>>]}

\* mongoose.Types.ObjectId.isValid(skillId) of the route parameter
IsValidSkillParam(param) ==
    "id" \in DOMAIN param \/ IsObjectIdString(param.token)

\* the two skill sets of a user
SkillSets == {"skillsToTeach", "skillsToLearn"}

\* { $addToSet: { [set]: skillId } }
AddToSet(list, ref) ==
    IF \E k \in DOMAIN list : list[k] = ref THEN list ELSE Append(list, ref)

\* { $pull: { [set]: skillId } }
Pull(list, ref) == SelectSeq(list, LAMBDA x : x # ref)

\* resolutions of add-skill requests that may still create a skill
AddsInFlight == Cardinality({s \in Slots : ureq[s].pc = "resolve"})

\* isValid(userId), skillId = await getOrCreateSkill(skillId) starts
AddSkillStart(r) ==
    /\ UserArrives(r)
    /\ nextSkillId + AddsInFlight <= MaxSkills
    /\ \E actor \in UserIds, id \in UserIdParams, token \in AddSkillInputs, set \in SkillSets :
         /\ AuthenticateToken(actor)
         /\ LET q == [UserRequest("addSkill") EXCEPT
                        !.actor = actor, !.id = id, !.skill = Some(set)]
            IN
            IF id = BadUserId
               THEN UserFails(r, q, 400, "Invalid user ID")
            ELSE ureq' = [ureq EXCEPT ![r] =
                            [q EXCEPT !.pc = "resolve", !.jobs = StartJobs(<<token>>)]]
    /\ UNCHANGED <<skills, nextSkillId, users, nextUserId>>

\* await User.findByIdAndUpdate(userId, { $addToSet }); a rejection of
\* getOrCreateSkill goes to the catch block
AddSkillUpdate(r) ==
    /\ UserResumes(r, {"addSkill"}, {"resolve"})
    /\ JobsSettled(ureq[r].jobs)
    /\ LET id == ureq[r].id
           set == TheList(ureq[r].skill)
       IN
       IF JobsFailed(ureq[r].jobs)
          THEN /\ UserFails(r, ureq[r], 500, ureq[r].jobs[1].error)
               /\ UNCHANGED users
       ELSE IF id \notin DOMAIN users
          THEN /\ UserFails(r, ureq[r], 404, "User not found")
               /\ UNCHANGED users
       ELSE /\ users' = [users EXCEPT ![id][set] = AddToSet(@, Refs(ureq[r].jobs)[1])]
            /\ UserReply(r, ureq[r], 200, "", Undefined,
                         Some(UserResponse([users[id] EXCEPT
                                ![set] = AddToSet(@, Refs(ureq[r].jobs)[1])])))
    /\ UNCHANGED <<skills, nextSkillId, nextUserId>>

\* isValid(userId), isValid(skillId), await User.findByIdAndUpdate(userId,
\* { $pull })
RemoveSkill(r) ==
    /\ UserArrives(r)
    /\ \E actor \in UserIds, id \in UserIdParams, param \in RemoveSkillInputs, set \in SkillSets :
         /\ AuthenticateToken(actor)
         /\ LET q == [UserRequest("removeSkill") EXCEPT
                        !.actor = actor, !.id = id, !.skill = Some(set)]
            IN
            IF id = BadUserId
               THEN /\ UserFails(r, q, 400, "Invalid user ID")
                    /\ UNCHANGED users
            ELSE IF ~IsValidSkillParam(param)
               THEN /\ UserFails(r, q, 400, "Invalid skill ID")
                    /\ UNCHANGED users
            ELSE IF id \notin DOMAIN users
               THEN /\ UserFails(r, q, 404, "User not found")
                    /\ UNCHANGED users
            ELSE /\ users' = [users EXCEPT ![id][set] = Pull(@, param)]
                 /\ UserReply(r, q, 200, "", Undefined,
                              Some(UserResponse([users[id] EXCEPT ![set] = Pull(@, param)])))
    /\ UNCHANGED <<skills, nextSkillId, nextUserId>>

\* the requests on skill sets, with the logins that create their users
NextSkillSets ==
    \E r \in Slots :
       \/ OAuthFind(r)
       \/ OAuthCreate(r)
       \/ AddSkillStart(r)
       \/ JobFind(r, 1)
       \/ JobCreate(r, 1)
       \/ AddSkillUpdate(r)
       \/ RemoveSkill(r)
       \/ UserComplete(r)

SpecSkillSets == Init /\ [][NextSkillSets]_vars

SpecSkillSetsSeq == InitSeq /\ [][NextSkillSets]_vars

(***************************************************************************)
(* Chat: messages over REST and over sockets                               *)
(***************************************************************************)
\* the authenticated users of the REST requests
ChatActors == {"a", "b"}

\* recipientId of a request body or of a socket event
RecipientInputs ==
    {IdToString("a"), [oid |-> "a", canon |-> FALSE], IdToString("b"),
     [oid |-> Ghost, canon |-> TRUE], Malformed}

\* senderId of a socket event: any string the client chooses
SenderInputs == {IdToString("a"), Malformed}

\* content of a request body or of a socket event: missing, " ", " a"
ContentInputs == {Undefined, Some(<<Space>>), Some(<<Space, Letter>>)}

\* the userId of an identify event
IdentifyInputs == {IdToString(u) : u \in ChatActors}

\* !content || !content.trim()
ContentMissing(content) ==
    content = Undefined \/ TheString(content) = <<>> \/ Trim(TheString(content)) = <<>>

\* schema validation of Message.create: sender and recipient are cast to
\* ObjectId, content is required
MessageValidationError(sender, recipient, content) ==
    \/ ~IsValidObjectId(sender)
    \/ ~IsValidObjectId(recipient)
    \/ content = Undefined
    \/ TheString(content) = <<>>

\* the document Message.create builds; read takes its default
NewMessage(sender, recipient, content) ==
    [sender |-> Cast(sender), recipient |-> Cast(recipient),
     content |-> content, read |-> FALSE]

\* an insert that overwrites the documents of the collection
CreateMessage_Overwrite(doc) == [i \in 1..nextMsgId |-> doc]

\* an insert that is lost
CreateMessage_Lost(doc) == messages

\* the insert of Message.create
CreateMessage(doc) == (nextMsgId :> doc) @@ messages

\* Message.find({ $or: [...] }).sort({ createdAt: 1 }): the _ids in order
FindMessages(user, other) ==
    SelectSeq([i \in 1..Len(messages) |-> i],
              LAMBDA i : \/ messages[i].sender = user /\ messages[i].recipient = other
                         \/ messages[i].sender = other /\ messages[i].recipient = user)

\* onlineUsers.set(userId, socket.id): a new key goes to the end, a key that
\* is there keeps its place
OnlineSet(userId, sock) ==
    IF \E k \in DOMAIN online : online[k].user = userId
       THEN [k \in DOMAIN online |->
               IF online[k].user = userId THEN [user |-> userId, sock |-> sock] ELSE online[k]]
       ELSE Append(online, [user |-> userId, sock |-> sock])

\* onlineUsers.get(userId): no socket id or one
OnlineGet(userId) == {online[k].sock : k \in {m \in DOMAIN online : online[m].user = userId}}

\* the loop of the disconnect handler: the first entry of the socket is
\* deleted, then `break`
OnlinePurge(sock) ==
    LET hits == {k \in DOMAIN online : online[k].sock = sock} IN
    IF hits = {} THEN online
    ELSE LET first == CHOOSE k \in hits : \A m \in hits : k <= m
         IN [k \in 1..(Len(online) - 1) |-> IF k < first THEN online[k] ELSE online[k + 1]]

ChatReply(r, q, code, error, id, rows) ==
    creq' = [creq EXCEPT ![r] =
               [q EXCEPT !.pc = "done",
                         !.resp = [q.resp EXCEPT !.code = code, !.error = error,
                                                 !.id = id, !.rows = rows]]]

\* the events of a socket handler that has run to its end
ChatEmits(r, q, emits) ==
    creq' = [creq EXCEPT ![r] = [q EXCEPT !.pc = "done", !.resp.emits = emits]]

ChatQuiet == \A s \in Slots : creq[s].pc = "idle"

ChatNoneDone == \A s \in Slots : creq[s].pc # "done"

\* Message.create calls that requests in flight have still to make
MessagesInFlight == Cardinality({s \in Slots : creq[s].pc = "create"})

\* a REST request or a socket event reaches its handler on slot r
ChatArrives(r) ==
    /\ creq[r].pc = "idle"
    /\ \A s \in Slots : s < r => creq[s].pc # "idle"
    /\ ChatNoneDone
    /\ serial => ChatQuiet
    /\ pre' = IF serial THEN messages ELSE pre
    /\ UNCHANGED <<conns, nextId, req, removed, serial, skillVars, userVars>>

\* the handler on slot r resumes after the await named pc
ChatResumes(r, op, pc) ==
    /\ creq[r].op = op /\ creq[r].pc = pc
    /\ ChatNoneDone
    /\ UNCHANGED <<conns, nextId, req, removed, serial, pre, skillVars, userVars>>

\* the handler on slot r has returned; the slot is free again
ChatComplete(r) ==
    /\ creq[r].pc = "done"
    /\ creq' = [creq EXCEPT ![r] = IdleChatReq]
    /\ pre' = <<>>
    /\ UNCHANGED <<conns, nextId, req, removed, serial, skillVars, userVars,
                   messages, nextMsgId, online, connected>>

\* POST /api/chat/send: the checks of the body, await Promise.all of the two
\* User.findById
SendMessageCheck(r) ==
    /\ ChatArrives(r)
    /\ nextMsgId + MessagesInFlight <= MaxMessages
    /\ \E actor \in ChatActors, recipient \in RecipientInputs, content \in ContentInputs :
         LET q == [IdleChatReq EXCEPT !.op = "send", !.pc = "start",
                                      !.sender = IdToString(actor),
                                      !.recipient = recipient, !.content = content]
         IN
         IF ~IsValidObjectId(recipient)
            THEN ChatReply(r, q, 400, "Invalid recipient ID", 0, <<>>)
         ELSE IF ContentMissing(content)
            THEN ChatReply(r, q, 400, "Message content is required", 0, <<>>)
         ELSE IF IdToString(actor) = recipient
            THEN ChatReply(r, q, 400, "Cannot send message to yourself", 0, <<>>)
         ELSE IF Cast(recipient) \notin Users
            THEN ChatReply(r, q, 404, "User not found", 0, <<>>)
         ELSE creq' = [creq EXCEPT ![r] = [q EXCEPT !.pc = "create"]]
    /\ UNCHANGED <<messages, nextMsgId, online, connected>>

\* await Message.create({ sender, recipient, content: content.trim() })
SendMessageCreate(r) ==
    /\ ChatResumes(r, "send", "create")
    /\ LET content == Some(Trim(TheString(creq[r].content))) IN
       IF MessageValidationError(creq[r].sender, creq[r].recipient, content)
          THEN /\ ChatReply(r, creq[r], 500, "ValidationError", 0, <<>>)
               /\ UNCHANGED <<messages, nextMsgId>>
       ELSE /\ messages' = CreateMessage(NewMessage(creq[r].sender, creq[r].recipient,
                                                    TheString(content)))
            /\ nextMsgId' = nextMsgId + 1
            /\ ChatReply(r, creq[r], 201, "", nextMsgId, <<>>)
    /\ UNCHANGED <<online, connected>>

\* GET /api/chat/:userId
GetMessages(r) ==
    /\ ChatArrives(r)
    /\ \E actor \in ChatActors, other \in RecipientInputs :
         LET q == [IdleChatReq EXCEPT !.op = "fetch", !.pc = "start",
                                      !.sender = IdToString(actor), !.recipient = other]
         IN
         IF ~IsValidObjectId(other)
            THEN ChatReply(r, q, 400, "Invalid user ID", 0, <<>>)
         ELSE ChatReply(r, q, 200, "", 0, FindMessages(actor, Cast(other)))
    /\ UNCHANGED <<messages, nextMsgId, online, connected>>

\* io.on('connection')
SocketConnect(sock) ==
    /\ sock \notin connected
    /\ ChatNoneDone
    /\ serial => ChatQuiet
    /\ connected' = connected \cup {sock}
    /\ UNCHANGED <<conns, nextId, req, removed, serial, pre, skillVars, userVars,
                   messages, nextMsgId, online, creq>>

\* socket.on('identify')
SocketIdentify(sock) ==
    /\ sock \in connected
    /\ ChatNoneDone
    /\ serial => ChatQuiet
    /\ \E userId \in IdentifyInputs : online' = OnlineSet(userId, sock)
    /\ UNCHANGED <<conns, nextId, req, removed, serial, pre, skillVars, userVars,
                   messages, nextMsgId, connected, creq>>

\* socket.on('disconnect')
SocketDisconnect(sock) ==
    /\ sock \in connected
    /\ ChatNoneDone
    /\ connected' = connected \ {sock}
    /\ online' = OnlinePurge(sock)
    /\ UNCHANGED <<conns, nextId, req, removed, serial, pre, skillVars, userVars,
                   messages, nextMsgId, creq>>

\* socket.on('chat message'): the event arrives, await import of the model
SocketChatStart(r) ==
    /\ ChatArrives(r)
    /\ nextMsgId + MessagesInFlight <= MaxMessages
    /\ \E sock \in connected, sender \in SenderInputs,
          recipient \in RecipientInputs, content \in ContentInputs :
         creq' = [creq EXCEPT ![r] =
                    [IdleChatReq EXCEPT !.op = "socket", !.pc = "create", !.sock = sock,
                                        !.sender = sender, !.recipient = recipient,
                                        !.content = content]]
    /\ UNCHANGED <<messages, nextMsgId, online, connected>>

\* await Message.create({ sender: senderId, recipient: recipientId, content });
\* a rejection goes to the catch block
SocketChatCreate(r) ==
    /\ ChatResumes(r, "socket", "create")
    /\ IF MessageValidationError(creq[r].sender, creq[r].recipient, creq[r].content)
          THEN /\ ChatEmits(r, [creq[r] EXCEPT !.resp.error = "Failed to send message"],
                            {[to |-> creq[r].sock, event |-> "error", id |-> 0]})
               /\ UNCHANGED <<messages, nextMsgId>>
       ELSE /\ messages' = CreateMessage(NewMessage(creq[r].sender, creq[r].recipient,
                                                    TheString(creq[r].content)))
            /\ nextMsgId' = nextMsgId + 1
            /\ creq' = [creq EXCEPT ![r] = [@ EXCEPT !.pc = "emit", !.resp.id = nextMsgId]]
    /\ UNCHANGED <<online, connected>>

\* onlineUsers.get(recipientId), io.to(...).emit, socket.emit
SocketChatEmit(r) ==
    /\ ChatResumes(r, "socket", "emit")
    /\ ChatEmits(r, creq[r],
                 {[to |-> s, event |-> "chat message", id |-> creq[r].resp.id] :
                     s \in OnlineGet(creq[r].recipient) \cup {creq[r].sock}})
    /\ UNCHANGED <<messages, nextMsgId, online, connected>>

NextChat ==
    \/ \E r \in Slots :
          \/ SendMessageCheck(r)
          \/ SendMessageCreate(r)
          \/ GetMessages(r)
          \/ SocketChatStart(r)
          \/ SocketChatCreate(r)
          \/ SocketChatEmit(r)
          \/ ChatComplete(r)
    \/ \E sock \in Sockets :
          \/ SocketConnect(sock)
          \/ SocketIdentify(sock)
          \/ SocketDisconnect(sock)

SpecChat == Init /\ [][NextChat]_vars

SpecChatSeq == InitSeq /\ [][NextChat]_vars

ChatTypeOK ==
    /\ DOMAIN messages = 1..(nextMsgId - 1)
    /\ nextMsgId <= MaxMessages + 1
    /\ \A i \in DOMAIN messages :
          /\ messages[i].sender \in Users \cup {Ghost}
          /\ messages[i].recipient \in Users \cup {Ghost}
          /\ messages[i].read \in BOOLEAN
    /\ \A k \in DOMAIN online : online[k].sock \in Sockets
    /\ connected \subseteq Sockets

(***************************************************************************)
(* Properties                                                              *)
(***************************************************************************)
Parties(doc) == {doc.requester, doc.recipient}

\* the documents of a collection that connect x and y, in either direction
PairDocs(store, x, y) == {i \in DOMAIN store : Parties(store[i]) = {x, y}}

Finished(r, op) == req[r].op = op /\ req[r].pc = "done"

Within(store, cid) == [i \in DOMAIN store \ {cid} |-> store[i]]

\* C1: in every reachable state at most one Connection record exists for any
\* unordered pair of users, whatever the direction, under every interleaving
\* of request handlers.
C1_OneRecordPerPair ==
    \A i, j \in DOMAIN conns :
        i # j => Parties(conns[i]) # Parties(conns[j])

\* C2: a send from X to Y that arrives when a record for {X,Y} exists, in
\* either direction and with any status, fails with 400 'Connection already
\* exists' carrying the status of that record, and leaves the collection as
\* it was.
C2_SendConflict ==
    \A r \in Slots :
        (/\ Finished(r, "send")
         /\ IsValidObjectId(req[r].to)
         /\ PairDocs(pre, req[r].actor, Cast(req[r].to)) # {})
        => /\ req[r].resp.code = 400
           /\ req[r].resp.error = "Connection already exists"
           /\ \E i \in PairDocs(pre, req[r].actor, Cast(req[r].to)) :
                 req[r].resp.status = pre[i].status
           /\ conns = pre

\* a send of the recipient of a rejected request to its requester was refused
C2_Witness ==
    \E r \in Slots :
        /\ Finished(r, "send")
        /\ req[r].resp.code = 400
        /\ req[r].resp.status = REJECTED
        /\ \E i \in DOMAIN pre :
              /\ pre[i].requester = Cast(req[r].to)
              /\ pre[i].recipient = req[r].actor
              /\ pre[i].status = REJECTED

\* C3: the status of a record only ever changes from pending to accepted or
\* from pending to rejected, and an accept or reject reports success only for
\* a record that was pending when it was written, so that of an accept and a
\* reject of one request at most one succeeds.
C3_StatusOnlyLeavesPending ==
    [][/\ \A i \in DOMAIN conns \cap DOMAIN conns' :
            conns'[i].status # conns[i].status
            => conns[i].status = PENDING /\ conns'[i].status \in {ACCEPTED, REJECTED}
       /\ \A r \in Slots :
            (req[r].pc = "save" /\ req'[r].pc # "save" /\ req'[r].resp.code # 500)
            => conns[req[r].cid].status = PENDING]_vars

Decision(op) == IF op = "accept" THEN ACCEPTED ELSE REJECTED

\* C4: accept (reject) of a well-formed connection id succeeds exactly when
\* the record exists, the acting user is its recipient and its status is
\* pending; it then sets the status to accepted (rejected) and changes
\* nothing else; otherwise it fails with 404 (no record), 403 (actor is not
\* the recipient) or 400 'not pending', and the collection is unchanged.
C4_AcceptReject ==
    \A r \in Slots :
        (/\ req[r].pc = "done"
         /\ req[r].op \in {"accept", "reject"}
         /\ req[r].cid # BadConnId)
        => LET cid == req[r].cid
               code == req[r].resp.code
           IN
           IF cid \notin DOMAIN pre
              THEN code = 404 /\ conns = pre
           ELSE IF pre[cid].recipient # req[r].actor
              THEN code = 403 /\ conns = pre
           ELSE IF pre[cid].status # PENDING
              THEN /\ code = 400
                   /\ req[r].resp.error = "Connection request is not pending"
                   /\ conns = pre
           ELSE /\ code = 200
                /\ conns = [pre EXCEPT ![cid].status = Decision(req[r].op)]

\* the recipient accepted a pending request that carries a message
C4_Witness ==
    \E r \in Slots :
        /\ Finished(r, "accept")
        /\ req[r].resp.code = 200
        /\ conns[req[r].cid].status = ACCEPTED
        /\ conns[req[r].cid].message # Undefined
        /\ pre[req[r].cid].status = PENDING

\* C5: cancel deletes the record exactly when the acting user is its
\* requester and its status is pending; remove deletes it exactly when the
\* acting user is its requester or recipient and its status is accepted; in
\* every other case the operation answers with an error and the collection is
\* unchanged.
C5_CancelRemove ==
    \A r \in Slots :
        (req[r].pc = "done" /\ req[r].op \in {"cancel", "remove"})
        => LET cid == req[r].cid
               allowed ==
                   /\ cid \in DOMAIN pre
                   /\ IF req[r].op = "cancel"
                         THEN /\ pre[cid].requester = req[r].actor
                              /\ pre[cid].status = PENDING
                         ELSE /\ req[r].actor \in Parties(pre[cid])
                              /\ pre[cid].status = ACCEPTED
           IN
           IF allowed
              THEN req[r].resp.code = 200 /\ conns = Within(pre, cid)
              ELSE req[r].resp.code \in {400, 403, 404} /\ conns = pre

\* the recipient of an accepted connection removed it
C5_Witness ==
    \E r \in Slots :
        /\ Finished(r, "remove")
        /\ req[r].resp.code = 200
        /\ req[r].cid \in DOMAIN pre
        /\ pre[req[r].cid].recipient = req[r].actor
        /\ req[r].cid \notin DOMAIN conns

\* C6: a user who is neither requester nor recipient of a record can not
\* change or delete it: each accept, reject, cancel or remove of such a user
\* on the record is answered 403 and leaves the collection unchanged, and
\* every step that changes or deletes a record belongs to a request of one of
\* its two parties.
C6_ThirdPartyForbidden ==
    [][/\ \A r \in Slots :
            (/\ req[r].pc = "idle"
             /\ req'[r].op \in ById
             /\ req'[r].cid \in DOMAIN conns
             /\ req'[r].actor \notin Parties(conns[req'[r].cid]))
            => /\ req'[r].pc = "done"
               /\ req'[r].resp.code = 403
               /\ conns' = conns
       /\ \A i \in DOMAIN conns :
            (i \notin DOMAIN conns' \/ conns'[i] # conns[i])
            => \E r \in Slots :
                  /\ req'[r].pc # req[r].pc
                  /\ req[r].op \in ById
                  /\ req[r].cid = i
                  /\ req[r].actor \in Parties(conns[i])]_vars

\* a third user was refused the removal of an accepted connection
C6_Witness ==
    \E r \in Slots :
        /\ Finished(r, "remove")
        /\ req[r].resp.code = 403
        /\ req[r].cid \in DOMAIN conns
        /\ conns[req[r].cid].status = ACCEPTED
        /\ req[r].actor \notin Parties(conns[req[r].cid])

\* C7: no record has its requester as its recipient, and a send whose
\* recipient id denotes the acting user is answered with a 4xx error and
\* creates no record.
C7_NoSelfConnection ==
    /\ \A i \in DOMAIN conns : conns[i].requester # conns[i].recipient
    /\ \A r \in Slots :
          (/\ Finished(r, "send")
           /\ IsValidObjectId(req[r].to)
           /\ Cast(req[r].to) = req[r].actor)
          => req[r].resp.code \in 400..499 /\ conns = pre

MessageAccepted(m) == m = Undefined \/ Len(Trim(TheString(m))) <= MaxMessageLength

SendAllowed(r) ==
    /\ Cast(req[r].to) \in Users
    /\ Cast(req[r].to) # req[r].actor
    /\ PairDocs(pre, req[r].actor, Cast(req[r].to)) = {}

\* on success exactly one record is added: requester X, recipient Y, pending
SendAdded(r) ==
    \E i \in DOMAIN conns \ DOMAIN pre :
        /\ DOMAIN conns = DOMAIN pre \cup {i}
        /\ \A j \in DOMAIN pre : conns[j] = pre[j]
        /\ conns[i].requester = req[r].actor
        /\ conns[i].recipient = Cast(req[r].to)
        /\ conns[i].status = PENDING

\* C8 as stated: a send by X to a well-formed id Y succeeds exactly when Y
\* is an existing user, Y differs from X and no record exists for {X,Y}.
C8_SendExactly ==
    \A r \in Slots :
        (Finished(r, "send") /\ IsValidObjectId(req[r].to))
        => /\ req[r].resp.code = 201 <=> SendAllowed(r)
           /\ req[r].resp.code = 201 => SendAdded(r)
           /\ req[r].resp.code # 201 => conns = pre
           /\ Cast(req[r].to) \notin Users => req[r].resp.code = 404

\* C8 amended: a send by X to a well-formed id Y succeeds exactly when Y is an
\* existing user, Y differs from X, no record exists for {X,Y} and the
\* trimmed message has at most 500 characters; on success exactly one record
\* is added, with requester X, recipient Y and status pending, and no other
\* record changes; on failure the collection is unchanged, and when Y does
\* not exist the answer is 404.
C8_SendExactlyWithinLimit ==
    \A r \in Slots :
        (Finished(r, "send") /\ IsValidObjectId(req[r].to))
        => /\ req[r].resp.code = 201 <=> (SendAllowed(r) /\ MessageAccepted(req[r].msg))
           /\ req[r].resp.code = 201 => SendAdded(r)
           /\ req[r].resp.code # 201 => conns = pre
           /\ Cast(req[r].to) \notin Users => req[r].resp.code = 404

\* a send with a message succeeded while records of other pairs exist
C8_Witness ==
    \E r \in Slots :
        /\ Finished(r, "send")
        /\ req[r].resp.code = 201
        /\ req[r].msg # Undefined
        /\ pre # <<>>
        /\ SendAdded(r)

\* C9: rejected is terminal and retained: a record with status rejected is
\* still there with status rejected in every later state.
C9_RejectedIsTerminal ==
    [][\A i \in DOMAIN conns :
          conns[i].status = REJECTED
          => i \in DOMAIN conns' /\ conns'[i].status = REJECTED]_vars

\* C10: once a cancel or a remove has succeeded on the record of A and B the
\* record is gone; from then on, while no new record connects them, a status
\* lookup between A and B answers none in both directions and a send between
\* them, in either direction, succeeds with a pending record.
C10_GoneAfterRemove ==
    \A r \in Slots :
        req[r].pc = "done"
        => /\ (req[r].op \in {"cancel", "remove"} /\ req[r].resp.code = 200)
              => LET doc == pre[req[r].cid] IN
                 /\ <<doc.requester, doc.recipient>> \in removed
                 /\ PairDocs(conns, doc.requester, doc.recipient) = {}
           /\ \A p \in removed :
                 (/\ {req[r].actor, Cast(req[r].to)} = {p[1], p[2]}
                  /\ PairDocs(pre, p[1], p[2]) = {})
                 => /\ req[r].op = "status"
                       => req[r].resp.code = 200 /\ req[r].resp.status = "none"
                    /\ (req[r].op = "send" /\ MessageAccepted(req[r].msg))
                       => /\ req[r].resp.code = 201
                          /\ req[r].resp.status = PENDING
                          /\ SendAdded(r)

\* the recipient of a removed connection sent a new request to its requester
C10_Witness ==
    \E r \in Slots :
        /\ Finished(r, "send")
        /\ req[r].resp.code = 201
        /\ <<Cast(req[r].to), req[r].actor>> \in removed
        /\ PairDocs(conns, req[r].actor, Cast(req[r].to)) # {}

\* after a removal the status lookup of the requester answered none
C10_LookupWitness ==
    \E r \in Slots :
        /\ Finished(r, "status")
        /\ req[r].resp.status = "none"
        /\ <<req[r].actor, Cast(req[r].to)>> \in removed

\* C28: a cancel only ever deletes a record that is pending at the moment
\* of the deletion, also when it interleaves with the recipient's accept of
\* the same request, and an accept reports success only for a record that
\* is still there.
C28_CancelDeletesOnlyPending ==
    [][\A r \in Slots :
          /\ (/\ req[r].op = "cancel" /\ req[r].pc = "delete" /\ req'[r].pc = "done"
              /\ req[r].cid \in DOMAIN conns)
             => conns[req[r].cid].status = PENDING
          /\ (/\ req[r].op = "accept" /\ req[r].pc = "save" /\ req'[r].pc = "done"
              /\ req'[r].resp.code = 200)
             => req[r].cid \in DOMAIN conns']_vars

\* C30: no reachable state holds a Connection record with status blocked:
\* every record is created pending and the only statuses written are
\* accepted and rejected.
C30_NeverBlocked ==
    /\ \A i \in DOMAIN conns : conns[i].status \in {PENDING, ACCEPTED, REJECTED}
    /\ \A r \in Slots :
          (Finished(r, "send") /\ req[r].resp.code = 201)
          => nextId - 1 \in DOMAIN conns /\ conns[nextId - 1].status = PENDING

\* an accepted and a rejected record exist after a send has created a third
C30_Witness ==
    /\ \E i, j \in DOMAIN conns :
          conns[i].status = ACCEPTED /\ conns[j].status = REJECTED
    /\ \E r \in Slots : Finished(r, "accept") /\ req[r].resp.code = 200

(***************************************************************************)
(* Status lookup and per-user queries                                      *)
(***************************************************************************)
\* C11: the status lookup is symmetric: for two users with a record between
\* them, the lookup of B by A and the lookup of A by B report the same record
\* and the same status; when it is pending the requester sees request_sent
\* and the recipient request_received, when accepted both see connected,
\* when rejected both see rejected.
C11_StatusSymmetric ==
    \A a, b \in Users :
        \A x \in StatusOutcomes(a, IdToString(b)), y \in StatusOutcomes(b, IdToString(a)) :
            /\ x.record = y.record
            /\ x.status = y.status
            /\ x.status = PENDING
               => /\ {x.relationship, y.relationship} = {"request_sent", "request_received"}
                  /\ x.relationship = "request_sent" <=> conns[x.record].requester = a
            /\ x.status = ACCEPTED
               => x.relationship = "connected" /\ y.relationship = "connected"
            /\ x.status = REJECTED
               => x.relationship = "rejected" /\ y.relationship = "rejected"

\* C12: when no record connects the querying user and the target user, the
\* body of the status lookup carries status "none" and relationship "none".
C12_NoneCarriesRelationship ==
    \A r \in Slots :
        (/\ Finished(r, "status")
         /\ req[r].resp.code = 200
         /\ PairDocs(conns, req[r].actor, Cast(req[r].to)) = {})
        => req[r].resp.status = "none" /\ req[r].resp.relationship = "none"

\* the elements of a sequence
Range(seq) == {seq[k] : k \in DOMAIN seq}

\* a list of documents without repetition, newest first
IsNewestFirst(seq) == \A k \in DOMAIN seq : \A l \in DOMAIN seq : k < l => seq[k] > seq[l]

\* C13: in the body of 'query all for user' `sent` is exactly the returned
\* records whose requester is the user, `received` exactly those whose
\* recipient is the user, every record of `all` is in exactly one of the
\* two, and count = |all| = |sent| + |received|.
C13_AllPartitioned ==
    \A r \in Slots :
        Finished(r, "all")
        => LET rows == req[r].rows IN
           /\ Range(rows.sent) = {i \in Range(rows.all) : conns[i].requester = req[r].actor}
           /\ Range(rows.received) = {i \in Range(rows.all) : conns[i].recipient = req[r].actor}
           /\ Range(rows.sent) \cap Range(rows.received) = {}
           /\ Range(rows.sent) \cup Range(rows.received) = Range(rows.all)
           /\ rows.count = Len(rows.all)
           /\ rows.count = Len(rows.sent) + Len(rows.received)

\* C14: 'query pending for user U' returns exactly the records whose
\* recipient is U and whose status is pending, newest first: a request U
\* sent is not in the list, and neither is a request that has been accepted,
\* rejected or cancelled.
C14_PendingExact ==
    \A r \in Slots :
        Finished(r, "pending")
        => LET rows == req[r].rows IN
           /\ req[r].resp.code = 200
           /\ Range(rows.all) =
                 {i \in DOMAIN conns :
                     conns[i].recipient = req[r].actor /\ conns[i].status = PENDING}
           /\ IsNewestFirst(rows.all)
           /\ rows.count = Len(rows.all)

\* a user with a request received and a request sent, both pending, was
\* given the one received
C14_Witness ==
    \E r \in Slots :
        /\ Finished(r, "pending")
        /\ req[r].rows.count = 1
        /\ \E j \in DOMAIN conns :
              conns[j].requester = req[r].actor /\ conns[j].status = PENDING

\* C15: 'query accepted for user U' returns exactly the records with status
\* accepted in which U is requester or recipient, newest first: an accepted
\* connection is in the list of both of its users and in neither after a
\* remove.
C15_AcceptedExact ==
    \A r \in Slots :
        Finished(r, "accepted")
        => LET rows == req[r].rows IN
           /\ req[r].resp.code = 200
           /\ Range(rows.all) =
                 {i \in DOMAIN conns :
                     req[r].actor \in Parties(conns[i]) /\ conns[i].status = ACCEPTED}
           /\ IsNewestFirst(rows.all)
           /\ rows.count = Len(rows.all)
           /\ \A p \in removed :
                 PairDocs(conns, p[1], p[2]) = {}
                 => \A i \in Range(rows.all) : Parties(conns[i]) # {p[1], p[2]}

\* the recipient of an accepted connection was given it
C15_Witness ==
    \E r \in Slots :
        /\ Finished(r, "accepted")
        /\ \E i \in Range(req[r].rows.all) : conns[i].recipient = req[r].actor

\* after the removal of a connection its requester was given an empty list
C15_RemovedWitness ==
    \E r \in Slots :
        /\ Finished(r, "accepted")
        /\ req[r].rows.count = 0
        /\ \E p \in removed : p[1] = req[r].actor

(***************************************************************************)
(* Skills                                                                  *)
(***************************************************************************)
\* equality of names under case-insensitive comparison
SameName(x, y) == LowerCase(x) = LowerCase(y)

SkillFinished(r, op) == sreq[r].op = op /\ sreq[r].pc = "done"

\* the token of a resolution is a name: not an id string, not blank
NameToken(r) ==
    /\ ~IsObjectIdString(TheString(sreq[r].name))
    /\ Trim(TheString(sreq[r].name)) # <<>>

\* C16: the resolver is idempotent: resolutions, one after the other, of
\* name tokens that are equal after trimming and case-folding return the same
\* skill identifier and create one Skill record, the first time: a
\* resolution whose name is the name of a record, compared
\* case-insensitively, returns that record and changes nothing, and any
\* other resolution adds exactly one record, named by the trimmed token, and
\* returns it.
C16_ResolverIdempotent ==
    \A r \in Slots :
        (SkillFinished(r, "resolve") /\ NameToken(r))
        => LET name == Trim(TheString(sreq[r].name))
               known == {i \in DOMAIN pre : SameName(pre[i].name, name)}
           IN
           /\ sreq[r].out.error = ""
           /\ IF known # {}
                 THEN sreq[r].out.id \in known /\ skills = pre
                 ELSE /\ sreq[r].out.id \notin DOMAIN pre
                      /\ skills = (sreq[r].out.id :> [name |-> name]) @@ pre

\* C17: when resolutions of the same not-yet-existing name run concurrently,
\* the one whose create hits the uniqueness violation re-fetches and returns
\* the winner's id: every resolution of a name succeeds and returns a record
\* of that name, and one record has that name afterwards.
C17_RaceLoserRefetches ==
    \A r \in Slots :
        (/\ SkillFinished(r, "resolve")
         /\ NameToken(r)
         /\ \A k \in DOMAIN TheString(sreq[r].name) : TheString(sreq[r].name)[k] # Plus)
        => /\ sreq[r].out.error = ""
           /\ sreq[r].out.id \in DOMAIN skills
           /\ SameName(skills[sreq[r].out.id].name, Trim(TheString(sreq[r].name)))
           /\ Cardinality(FindOneByName(skills[sreq[r].out.id].name)) = 1

\* C18: in every reachable state no two Skill records have names that are
\* equal under case-insensitive comparison, across every sequence and
\* interleaving of direct creation, rename, resolution and deletion.
C18_NoCaseInsensitiveDuplicates ==
    \A i, j \in DOMAIN skills :
        i # j => ~SameName(skills[i].name, skills[j].name)

\* C19: direct creation of a skill whose trimmed name equals the name of an
\* existing skill, compared case-insensitively, is rejected with 400 'Skill
\* already exists' and creates no record.
C19_DuplicateCreateRefused ==
    \A r \in Slots :
        (/\ SkillFinished(r, "create")
         /\ ~NameMissing(sreq[r].name)
         /\ \E i \in DOMAIN pre : SameName(pre[i].name, Trim(TheString(sreq[r].name))))
        => /\ sreq[r].out.code = 400
           /\ sreq[r].out.error = "Skill already exists"
           /\ skills = pre

\* C20: creating or renaming a skill with a missing, empty or
\* whitespace-only name fails with 400 'Skill name is required' and leaves
\* the skill store unchanged; with any other name, the name that a create or
\* a rename stores is the input without its leading and trailing white
\* space, and nothing else changes.
C20_NameRequiredAndTrimmed ==
    \A r \in Slots :
        (sreq[r].pc = "done" /\ sreq[r].op \in {"create", "update"})
        => LET name == sreq[r].name
               out == sreq[r].out
           IN
           IF name = Undefined \/ Trim(TheString(name)) = <<>>
              THEN /\ out.code = 400
                   /\ out.error = "Skill name is required"
                   /\ skills = pre
           ELSE /\ out.code = 201
                   => /\ out.id \notin DOMAIN pre
                      /\ skills = (out.id :> [name |-> Trim(TheString(name))]) @@ pre
                /\ out.code = 200
                   => /\ sreq[r].id \in DOMAIN pre
                      /\ skills = [pre EXCEPT ![sreq[r].id].name = Trim(TheString(name))]
                /\ out.code \notin {200, 201} => skills = pre

\* a skill was created from a name with white space around it
C20_Witness ==
    \E r \in Slots :
        /\ SkillFinished(r, "create")
        /\ sreq[r].out.code = 201
        /\ TheString(sreq[r].name) # Trim(TheString(sreq[r].name))
        /\ skills[sreq[r].out.id].name = <<Upper>>

\* a skill was renamed from a name with white space around it
C20_RenameWitness ==
    \E r \in Slots :
        /\ SkillFinished(r, "update")
        /\ sreq[r].out.code = 200
        /\ TheString(sreq[r].name) # Trim(TheString(sreq[r].name))
        /\ pre[sreq[r].id].name # skills[sreq[r].id].name

\* a create without a name was refused while skills exist
C20_MissingWitness ==
    \E r \in Slots :
        /\ SkillFinished(r, "create")
        /\ sreq[r].name = Undefined
        /\ sreq[r].out.code = 400
        /\ skills # <<>>


(***************************************************************************)
(* Users                                                                   *)
(***************************************************************************)
UserFinished(r, op) == ureq[r].pc = "done" /\ ureq[r].op = op

\* the emails of a User collection
EmailsOf(coll) == {coll[i].email : i \in DOMAIN coll}

\* C21: a registration with a name, a password, an email that no user has and
\* no skill list at all succeeds: it answers 200 with a token and the new
\* user without its password, and the collection has one user more.
C21_RegisterWithoutSkills ==
    \A r \in Slots :
       (/\ UserFinished(r, "register")
        /\ ureq[r].teach = Undefined
        /\ ureq[r].password # Undefined
        /\ ureq[r].email \notin EmailsOf(pre.users))
       => /\ ureq[r].resp.code = 200
          /\ ureq[r].resp.token # Undefined
          /\ ureq[r].resp.user # Undefined
          /\ TheList(ureq[r].resp.user).password = Undefined
          /\ Len(users) = Len(pre.users) + 1

\* C24: a successful password login of a user whose hasReceivedFreePoints is
\* false and whose points are 0 returns the user with 500 points and the
\* flag set.
C24_FreePointsOnFirstLogin ==
    \A r \in Slots :
       (/\ UserFinished(r, "login")
        /\ ureq[r].resp.code = 200
        /\ ~pre.users[ureq[r].id].hasReceivedFreePoints
        /\ pre.users[ureq[r].id].points = 0)
       => /\ TheList(ureq[r].resp.user).points = 500
          /\ TheList(ureq[r].resp.user).hasReceivedFreePoints

\* the credentials of the login on slot r are those of a password account
\* of the collection coll
CredentialsMatch(r, coll) ==
    \E i \in DOMAIN coll :
       /\ coll[i].email = ureq[r].email
       /\ coll[i].oauthProvider = Undefined
       /\ ureq[r].password # Undefined
       /\ coll[i].password = Some(BcryptHash(TheList(ureq[r].password)))

\* C25: a password login issues a token only when a user with the email
\* exists, has no OAuth provider and the password matches the stored hash;
\* every other login fails with 400 'Invalid credentials'; a failed login
\* changes no state.
C25_LoginInvalidCredentials ==
    \A r \in Slots :
       UserFinished(r, "login")
       => /\ ureq[r].resp.token # Undefined => CredentialsMatch(r, pre.users)
          /\ ~CredentialsMatch(r, pre.users)
             => /\ ureq[r].resp.code = 400
                /\ ureq[r].resp.error = "Invalid credentials"
                /\ users = pre.users /\ skills = pre.skills

UniqueEmails(coll) ==
    \A i, j \in DOMAIN coll : coll[i].email = coll[j].email => i = j

C23_PasswordIffNoProvider ==
    \A i \in DOMAIN users :
       users[i].password # Undefined <=> users[i].oauthProvider = Undefined

\* a profile update succeeded on a collection that holds a registered user
\* and a user created by an OAuth login
C23_Witness ==
    /\ \E i, j \in DOMAIN users :
          /\ users[i].password # Undefined
          /\ users[j].oauthProvider # Undefined
    /\ \E r \in Slots : UserFinished(r, "update") /\ ureq[r].resp.code = 200

\* the skill list of the request on slot r names one skill more than once
RepeatsName(r) ==
    /\ ureq[r].teach # Undefined
    /\ \E k, m \in DOMAIN TheList(ureq[r].teach) :
          k # m /\ SameName(TheList(ureq[r].teach)[k], TheList(ureq[r].teach)[m])

\* C29: when a registration or a profile update resolves a skill list that
\* repeats a name no skill has yet, every resolution succeeds and there is
\* one new skill; and when a resolution fails, the operation fails and no
\* user is created or changed.
C29_RepeatedNameResolvesOnce ==
    \A r \in Slots :
       (/\ ureq[r].pc = "done"
        /\ ureq[r].op \in {"register", "update"}
        /\ ureq[r].jobs # <<>>)
       => /\ (RepeatsName(r) /\ pre.skills = <<>>)
             => /\ ~JobsFailed(ureq[r].jobs)
                /\ ureq[r].resp.code # 500
                /\ Len(skills) = 1
          /\ JobsFailed(ureq[r].jobs)
             => ureq[r].resp.code >= 400 /\ users = pre.users

(***************************************************************************)
(* Store constraints                                                       *)
(***************************************************************************)
\* C26: a skill operation that fails on the unique index of Skill.name (a
\* create or a rename that hits the name of another skill) is answered with
\* a 4xx status, never with a 5xx status.
C26_ConstraintFailureIs4xx ==
    \A r \in Slots :
       (/\ sreq[r].pc = "done"
        /\ sreq[r].op \in {"create", "update"}
        /\ sreq[r].out.error = "E11000 duplicate key")
       => sreq[r].out.code \in 400..499

(***************************************************************************)
(* Chat                                                                    *)
(***************************************************************************)
ChatFinished(r, op) == creq[r].pc = "done" /\ creq[r].op = op

\* C27: a message that exists stays in the collection with its sender,
\* recipient, content and read flag, whatever operation runs.
C27_MessagesImmutable ==
    [][\A i \in DOMAIN messages :
          i \in DOMAIN messages' /\ messages'[i] = messages[i]]_vars

\* a message sent over REST and one sent over a socket are both there and a
\* fetch has returned them
C27_Witness ==
    /\ Len(messages) = 2
    /\ messages[1].content = <<Letter>>
    /\ Head(messages[2].content) = Space
    /\ \E r \in Slots : ChatFinished(r, "fetch") /\ Len(creq[r].resp.rows) = 2

(***************************************************************************)
(* Identifier tokens and skill sets                                        *)
(***************************************************************************)
\* C31: the resolution of a token that is a well-formed identifier returns
\* the token itself without an error and leaves the Skill collection as it
\* was, whether or not the collection holds skills.
C31_IdentifierTokenUnchanged ==
    \A r \in Slots :
       (SkillFinished(r, "resolve") /\ TheString(sreq[r].name) = HexToken)
       => /\ sreq[r].out.error = ""
          /\ sreq[r].out.id = 0
          /\ skills = pre

\* an identifier token was resolved while the collection held skills
C31_Witness ==
    \E r \in Slots :
       /\ SkillFinished(r, "resolve")
       /\ TheString(sreq[r].name) = HexToken
       /\ sreq[r].out.error = ""
       /\ skills # <<>>

\* C32: an add-skill request addressed to a well-formed user id that no user
\* has is answered 404 and leaves the users and the skills as they were.
C32_AddSkillToUnknownUser ==
    \A r \in Slots :
       (/\ UserFinished(r, "addSkill")
        /\ ureq[r].id # BadUserId
        /\ ureq[r].id \notin DOMAIN pre.users)
       => /\ ureq[r].resp.code = 404
          /\ users = pre.users
          /\ skills = pre.skills

\* C33: every element of a user's teach set and learn set is the identifier
\* of a skill of the collection.
C33_SkillSetsReferToSkills ==
    \A i \in DOMAIN users : \A set \in SkillSets : \A k \in DOMAIN users[i][set] :
       users[i][set][k] \in {[id |-> j] : j \in DOMAIN skills}

\* C37: an add-skill or remove-skill request addressed to a user by another
\* authenticated user changes nothing in the record of the addressed user.
C37_OnlyOwnRecordChanges ==
    \A r \in Slots :
       (/\ ureq[r].pc = "done"
        /\ ureq[r].op \in {"addSkill", "removeSkill"}
        /\ ureq[r].id \in DOMAIN pre.users
        /\ ureq[r].actor # ureq[r].id)
       => users[ureq[r].id] = pre.users[ureq[r].id]

\* the 'chat message' events among the events of slot r, as socket ids
Delivered(resp) == {e.to : e \in {x \in resp.emits : x.event = "chat message"}}

\* C34: a socket chat message is stored before anything is emitted; it is
\* then emitted to the socket that the online map holds for the recipient at
\* that moment, if there is one, and echoed to the sender's socket in either
\* case; when storing fails nothing is stored, nothing is delivered and the
\* sender's socket gets an error event.
C34_PersistThenEmit ==
    [][\A r \in Slots :
          (creq[r].op = "socket" /\ creq[r].pc # "done" /\ creq'[r].pc = "done")
          => LET q == creq[r]
                 resp == creq'[r].resp
             IN
             IF resp.error = ""
                THEN /\ q.resp.id \in DOMAIN messages
                     /\ messages[q.resp.id].recipient = Cast(q.recipient)
                     /\ messages[q.resp.id].content = TheString(q.content)
                     /\ messages' = messages
                     /\ q.sock \in Delivered(resp)
                     /\ \A s \in Sockets \ {q.sock} :
                           s \in Delivered(resp)
                           <=> \E k \in DOMAIN online :
                                  online[k].user = q.recipient /\ online[k].sock = s
                     /\ \A e \in resp.emits : e.event = "chat message" /\ e.id = q.resp.id
                ELSE /\ messages' = messages
                     /\ resp.id = 0
                     /\ resp.emits = {[to |-> q.sock, event |-> "error", id |-> 0]}]_vars

\* a stored message was delivered to the recipient's socket and echoed to
\* the sender's socket
C34_Witness ==
    \E r \in Slots :
       /\ ChatFinished(r, "socket")
       /\ creq[r].resp.id \in DOMAIN messages
       /\ Cardinality(Delivered(creq[r].resp)) = 2

\* C35: after a socket has disconnected no entry of the online map holds
\* its id: every entry of the map holds the id of a connected socket.
C35_PurgedOnDisconnect ==
    \A k \in DOMAIN online : online[k].sock \in connected

\* C36: every stored message has content that is not empty, a sender other
\* than its recipient, and a sender and a recipient that are users.
C36_StoredMessagesValid ==
    \A i \in DOMAIN messages :
       /\ messages[i].content # <<>>
       /\ messages[i].sender # messages[i].recipient
       /\ messages[i].sender \in Users
       /\ messages[i].recipient \in Users

====
